---- MODULE Spec2Model ----
(***************************************************************************)
(* Oregon Energy Burden Dashboard (src/App.jsx): the analytics the         *)
(* component derives from the static monthly store: cross-utility sums,    *)
(* account-weighted averages, rate ratios, the 3-month trend classifier    *)
(* and the ZIP-code map of the Geographic View.                            *)
(*                                                                         *)
(* The store is immutable after load, so it is chosen in Init and never    *)
(* changed; the only mutable state is the React selection state.  Every    *)
(* derived value is an operator over the state, as the component           *)
(* recomputes it on every render.                                          *)
(***************************************************************************)
EXTENDS Integers, Sequences, FiniteSets, TLC

VARIABLES
    \* the static store (module-level consts of App.jsx), utility id -> series
    accounts, avgBill, avgUsage,
    arrearsCustomers, arrearsBalance,
    disconnections, reconnections,
    billDiscountParticipants, billDiscountDisconnections,
    billDiscountParticipantsWithArrears, billDiscountArrearsBalance,
    \* React state
    selectedUtility,
    \* the series handed to the trend classifier and what it returned
    data, trend,
    \* the ZIP-level store and the region catalogue of the Geographic View
    geoZipData, geoRegions,
    \* React state of the Geographic View
    geoMonth, geoMetric, geoUtility, geoHover, geoSelected, geoRegion

storeVars == <<accounts, avgBill, avgUsage, arrearsCustomers, arrearsBalance,
               disconnections, reconnections, billDiscountParticipants,
               billDiscountDisconnections, billDiscountParticipantsWithArrears,
               billDiscountArrearsBalance>>

geoStoreVars == <<geoZipData, geoRegions>>

geoVars == <<geoStoreVars, geoMonth, geoMetric, geoUtility, geoHover,
             geoSelected, geoRegion>>

vars == <<storeVars, selectedUtility, data, trend, geoVars>>

----------------------------------------------------------------------------
(* Bounds of the model *)

\* the reporting window: 21 months in the source, scaled down
NumMonths == 6
\* account counts (weights) range over 0..MaxAcct
MaxAcct == 2
\* bills, usages, counts and balances range over 0..MaxVal
MaxVal == 2

\* non-zero values of the series handed to the trend classifier, and the
\* largest factor a series is scaled by
SampleValues == {16, 17}

MaxScale == 3

\* the length of the ranked list: 50 in the source, scaled down to the
\* ZIP-level store explored
ListLimit == 3

----------------------------------------------------------------------------
(* Catalogues *)

\* the ids of `utilities`, in catalogue order
utilities == <<"pge", "pac", "ipco", "nwn", "cng", "avista">>

electricUtils == <<"pge", "pac", "ipco">>

gasUtils == <<"nwn", "cng", "avista">>

UtilityIds == {utilities[k] : k \in 1..Len(utilities)}

\* month labels, here their 0-based indices
months == [k \in 1..NumMonths |-> k - 1]

\* const currentMonth = 20: the last index of the 21-month window
currentMonth == NumMonths - 1

----------------------------------------------------------------------------
(* JavaScript numbers.  A finite number is an exact fraction n/d in lowest *)
(* terms; NaN and the infinities are values of their own, so that a        *)
(* division by zero is visible in the result.                              *)

RECURSIVE GCD(_, _)
GCD(a, b) == IF b = 0 THEN a ELSE GCD(b, a % b)

Abs(x) == IF x < 0 THEN -x ELSE x

Num(n, d) ==
    LET g == GCD(Abs(n), Abs(d))
        s == IF d < 0 THEN -1 ELSE 1
    IN  [k |-> "num", n |-> s * (n \div g), d |-> s * (d \div g)]

NaN == [k |-> "nan", n |-> 0, d |-> 1]

Infinity == [k |-> "inf", n |-> 1, d |-> 1]

NegInfinity == [k |-> "inf", n |-> -1, d |-> 1]

Int2Num(i) == [k |-> "num", n |-> i, d |-> 1]

IsFinite(x) == x.k = "num"

\* a / b on integers
JSDiv(a, b) ==
    IF b # 0 THEN Num(a, b)
    ELSE IF a = 0 THEN NaN
    ELSE IF a > 0 THEN Infinity ELSE NegInfinity

\* x * c for an integer c > 0
JSMul(x, c) == IF x.k = "num" THEN Num(x.n * c, x.d) ELSE x

\* Math.round: the nearest integer, halves towards +Infinity
MathRound(x) ==
    IF x.k = "num" THEN Int2Num((2 * x.n + x.d) \div (2 * x.d)) ELSE x

RECURSIVE SeqSum(_)
SeqSum(s) == IF s = <<>> THEN 0 ELSE Head(s) + SeqSum(Tail(s))

----------------------------------------------------------------------------
(* Store access *)

\* obj[id]?.[idx] || 0 : a missing utility or month reads as 0
Get(obj, id, idx) ==
    IF id \in DOMAIN obj /\ (idx + 1) \in DOMAIN obj[id]
    THEN obj[id][idx + 1]
    ELSE 0

\* obj[id][idx], unguarded, on a series that has the month
At(obj, id, idx) == obj[id][idx + 1]

\* utilities.reduce((sum, u) => sum + (obj[u.id]?.[idx] || 0), 0)
sumArray(obj, idx) ==
    SeqSum([k \in 1..Len(utilities) |-> Get(obj, utilities[k], idx)])

----------------------------------------------------------------------------
(* Weighted averages *)

\* ids.reduce((sum, u) => sum + (accounts[u]?.[idx] || 0), 0)
AccountsSumByCount(ids, idx) == Len(ids)

AccountsSum(ids, idx) ==
    SeqSum([k \in 1..Len(ids) |-> Get(accounts, ids[k], idx)])

\* ids.reduce((sum, u) => sum + acct * value, 0)
WeightedSumUnweighted(obj, ids, idx) ==
    SeqSum([k \in 1..Len(ids) |-> Get(obj, ids[k], idx)])

WeightedSum(obj, ids, idx) ==
    SeqSum([k \in 1..Len(ids) |->
                Get(accounts, ids[k], idx) * Get(obj, ids[k], idx)])

\* total > 0 ? weighted / total : 0
GuardedDivUnguarded(weighted, total) == JSDiv(weighted, total)

GuardedDiv(weighted, total) ==
    IF total > 0 THEN JSDiv(weighted, total) ELSE Int2Num(0)

\* trends: getWeightedAvgBillByMonth(monthIdx), not rounded
getWeightedAvgBillByMonth(monthIdx) ==
    GuardedDiv(WeightedSum(avgBill, utilities, monthIdx),
               AccountsSum(utilities, monthIdx))

\* trends: avgBillTrend = months.map((_, i) => getWeightedAvgBillByMonth(i))
avgBillTrend == [k \in 1..Len(months) |-> getWeightedAvgBillByMonth(months[k])]

\* totals (useMemo): the overview cards
totals ==
    [ customers       |-> sumArray(arrearsCustomers, currentMonth),
      balance         |-> sumArray(arrearsBalance, currentMonth),
      disconnections  |-> sumArray(disconnections, currentMonth),
      bdParticipants  |-> sumArray(billDiscountParticipants, currentMonth),
      avgBill         |-> MathRound(GuardedDiv(
                              WeightedSum(avgBill, utilities, currentMonth),
                              AccountsSum(utilities, currentMonth))),
      avgElectricUsage |-> MathRound(GuardedDiv(
                              WeightedSum(avgUsage, electricUtils, currentMonth),
                              AccountsSum(electricUtils, currentMonth))),
      avgGasUsage     |-> MathRound(GuardedDiv(
                              WeightedSum(avgUsage, gasUtils, currentMonth),
                              AccountsSum(gasUtils, currentMonth))),
      totalAccounts   |-> AccountsSum(utilities, currentMonth) ]

\* Overview: Average Monthly Residential Bill Trend, the row of month i
BillChartRowIgnoringFilter(i) ==
    MathRound(GuardedDiv(WeightedSum(avgBill, utilities, i),
                         AccountsSum(utilities, i)))

BillChartRow(i) ==
    IF selectedUtility = "all"
    THEN MathRound(GuardedDiv(WeightedSum(avgBill, utilities, i),
                              AccountsSum(utilities, i)))
    ELSE Int2Num(Get(avgBill, selectedUtility, i))

BillChart == [k \in 1..Len(months) |->
                 [month |-> months[k], value |-> BillChartRow(months[k])]]

\* Overview: Average Monthly Residential Usage Trend, the row of month i
UsageChartRow(i) ==
    IF selectedUtility = "all"
    THEN MathRound(GuardedDiv(WeightedSum(avgUsage, electricUtils, i),
                              AccountsSum(electricUtils, i)))
    ELSE Int2Num(Get(avgUsage, selectedUtility, i))

UsageChart == [k \in 1..Len(months) |->
                  [month |-> months[k], value |-> UsageChartRow(months[k])]]

----------------------------------------------------------------------------
(* getChartData *)

getChartDataRowAllOnly(dataObj, i) ==
    SeqSum([k \in 1..Len(utilities) |-> Get(dataObj, utilities[k], i)])

getChartDataRow(dataObj, i) ==
    IF selectedUtility = "all"
    THEN SeqSum([k \in 1..Len(utilities) |-> Get(dataObj, utilities[k], i)])
    ELSE Get(dataObj, selectedUtility, i)

getChartData(dataObj) ==
    [k \in 1..Len(months) |->
        [month |-> months[k], value |-> getChartDataRow(dataObj, months[k])]]

----------------------------------------------------------------------------
(* Rates *)

\* v || dflt on a stored number: 0 is falsy
OrDefault(v, dflt) == IF v = 0 THEN dflt ELSE v

\* (num / den) * 100
Percent(num, den) == JSMul(JSDiv(num, den), 100)

\* x.toFixed(1) read back as a number: one decimal, halves away from zero
ToFixed1(x) ==
    IF x.k # "num" THEN x
    ELSE IF x.n >= 0 THEN Num((20 * x.n + x.d) \div (2 * x.d), 10)
    ELSE Num(-((20 * (-x.n) + x.d) \div (2 * x.d)), 10)

\* Disconnections tab: Reconnection Rate (% of Disconnections), month i
ReconnectionRate(i) ==
    LET rate ==
          IF selectedUtility = "all"
          THEN LET totalRecon == SeqSum([k \in 1..Len(utilities) |->
                                     At(reconnections, utilities[k], i)])
                   totalDisc  == SeqSum([k \in 1..Len(utilities) |->
                                     At(disconnections, utilities[k], i)])
               IN  IF totalDisc > 0 THEN Percent(totalRecon, totalDisc)
                   ELSE Int2Num(0)
          ELSE LET recon == Get(reconnections, selectedUtility, i)
                   disc  == Get(disconnections, selectedUtility, i)
               IN  IF disc > 0 THEN Percent(recon, disc) ELSE Int2Num(0)
    IN  ToFixed1(rate)

\* Bill Discounts tab: Disconnection Rate for Bill Discount Participants (bar)
BillDiscountDisconnectionRate(u) ==
    LET discCount == OrDefault(At(billDiscountDisconnections, u, currentMonth), 0)
        partCount == OrDefault(At(billDiscountParticipants, u, currentMonth), 1)
    IN  Percent(discCount, partCount)

\* Bill Discounts tab: Share of Total Disconnections (bar)
ShareOfDisconnections(u) ==
    LET bdDisc    == OrDefault(At(billDiscountDisconnections, u, currentMonth), 0)
        totalDisc == OrDefault(At(disconnections, u, currentMonth), 1)
    IN  Percent(bdDisc, totalDisc)

\* Bill Discounts tab: Disconnection Rate Trend, month i
BillDiscountDisconnectionRateTrend(i) ==
    IF selectedUtility = "all"
    THEN LET totalDisc == SeqSum([k \in 1..Len(utilities) |->
                 OrDefault(At(billDiscountDisconnections, utilities[k], i), 0)])
             totalPart == SeqSum([k \in 1..Len(utilities) |->
                 OrDefault(At(billDiscountParticipants, utilities[k], i), 0)])
         IN  IF totalPart > 0 THEN Percent(totalDisc, totalPart) ELSE Int2Num(0)
    ELSE LET disc == Get(billDiscountDisconnections, selectedUtility, i)
             part == OrDefault(Get(billDiscountParticipants, selectedUtility, i), 1)
         IN  Percent(disc, part)

\* Bill Discounts tab: Share of Total Disconnections Trend, month i
ShareOfDisconnectionsTrend(i) ==
    IF selectedUtility = "all"
    THEN LET totalBdDisc == SeqSum([k \in 1..Len(utilities) |->
                 OrDefault(At(billDiscountDisconnections, utilities[k], i), 0)])
             totalDisc   == SeqSum([k \in 1..Len(utilities) |->
                 OrDefault(At(disconnections, utilities[k], i), 0)])
         IN  IF totalDisc > 0 THEN Percent(totalBdDisc, totalDisc) ELSE Int2Num(0)
    ELSE LET bdDisc    == Get(billDiscountDisconnections, selectedUtility, i)
             totalDisc == OrDefault(Get(disconnections, selectedUtility, i), 1)
         IN  Percent(bdDisc, totalDisc)

\* Bill Discounts tab: Bill Discount Arrears Rate (bar)
BillDiscountArrearsRate(u) ==
    LET withArrears ==
            OrDefault(At(billDiscountParticipantsWithArrears, u, currentMonth), 0)
        totalPart == OrDefault(At(billDiscountParticipants, u, currentMonth), 1)
    IN  IF withArrears > 0 THEN Percent(withArrears, totalPart) ELSE Int2Num(0)

\* Bill Discounts tab: Average Arrears per Participant (bar)
AverageArrearsPerParticipant(u) ==
    LET balance == OrDefault(At(billDiscountArrearsBalance, u, currentMonth), 0)
        withArrears ==
            OrDefault(At(billDiscountParticipantsWithArrears, u, currentMonth), 1)
    IN  IF balance > 0 THEN JSDiv(balance, withArrears) ELSE Int2Num(0)

\* Arrears tab: Average Arrears per Customer (bar)
AverageArrearsPerCustomer(u) ==
    MathRound(JSDiv(At(arrearsBalance, u, currentMonth),
                    At(arrearsCustomers, u, currentMonth)))

\* Utility Comparison table: Arrears Rate and Avg Arrears columns
ComparisonArrearsRate(u) ==
    ToFixed1(Percent(At(arrearsCustomers, u, currentMonth),
                     At(accounts, u, currentMonth)))

ComparisonAvgArrears(u) ==
    MathRound(JSDiv(At(arrearsBalance, u, currentMonth),
                    At(arrearsCustomers, u, currentMonth)))

----------------------------------------------------------------------------
(* IEEE-754 double arithmetic, as the engine performs it on the trend      *)
(* path: every operation returns the exact result rounded to the nearest   *)
(* 53-bit significand, ties to even.  Significands are natural numbers of  *)
(* any size, kept as little-endian sequences of 15-bit limbs.              *)

LimbBits == 15

LimbBase == 2^LimbBits

MantBits == 53

RECURSIVE BigNorm(_)
BigNorm(b) ==
    IF b = <<>> THEN b
    ELSE IF b[Len(b)] = 0 THEN BigNorm(SubSeq(b, 1, Len(b) - 1)) ELSE b

RECURSIVE BigOf(_)
BigOf(i) == IF i = 0 THEN <<>> ELSE <<i % LimbBase>> \o BigOf(i \div LimbBase)

RECURSIVE BigToInt(_)
BigToInt(b) == IF b = <<>> THEN 0 ELSE b[1] + LimbBase * BigToInt(Tail(b))

RECURSIVE BigMulSmall(_, _, _)
BigMulSmall(b, c, carry) ==
    IF b = <<>> THEN BigOf(carry)
    ELSE LET v == b[1] * c + carry
         IN  <<v % LimbBase>> \o BigMulSmall(Tail(b), c, v \div LimbBase)

\* b * c for a small integer c
BigMul(b, c) == IF c = 0 THEN <<>> ELSE BigMulSmall(b, c, 0)

RECURSIVE BigAddC(_, _, _)
BigAddC(a, b, carry) ==
    IF a = <<>> /\ b = <<>> THEN BigOf(carry)
    ELSE LET x == IF a = <<>> THEN 0 ELSE a[1]
             y == IF b = <<>> THEN 0 ELSE b[1]
             v == x + y + carry
         IN  <<v % LimbBase>> \o
             BigAddC(IF a = <<>> THEN a ELSE Tail(a),
                     IF b = <<>> THEN b ELSE Tail(b), v \div LimbBase)

BigAdd(a, b) == BigAddC(a, b, 0)

\* a - b for a >= b, limb by limb with borrow
RECURSIVE BigSubB(_, _, _)
BigSubB(a, b, borrow) ==
    IF a = <<>> THEN <<>>
    ELSE LET y == IF b = <<>> THEN 0 ELSE b[1]
             v == a[1] - y - borrow
         IN  <<IF v < 0 THEN v + LimbBase ELSE v>> \o
             BigSubB(Tail(a), IF b = <<>> THEN b ELSE Tail(b),
                     IF v < 0 THEN 1 ELSE 0)

BigSub(a, b) == BigNorm(BigSubB(a, b, 0))

\* -1, 0 or 1 as a < b, a = b, a > b
RECURSIVE BigCmpFrom(_, _, _)
BigCmpFrom(a, b, i) ==
    IF i = 0 THEN 0
    ELSE IF a[i] < b[i] THEN -1
    ELSE IF a[i] > b[i] THEN 1
    ELSE BigCmpFrom(a, b, i - 1)

BigCmp(a, b) ==
    IF Len(a) < Len(b) THEN -1
    ELSE IF Len(a) > Len(b) THEN 1
    ELSE BigCmpFrom(a, b, Len(a))

BigOdd(b) == b # <<>> /\ b[1] % 2 = 1

\* number of bits of a limb
IntBits(i) == Cardinality({j \in 0..(LimbBits - 1) : 2^j <= i})

BigBits(b) ==
    IF b = <<>> THEN 0 ELSE LimbBits * (Len(b) - 1) + IntBits(b[Len(b)])

\* b * 2^k
BigShl(b, k) ==
    LET limbs == k \div LimbBits
        bits  == k % LimbBits
        lo    == 2^(LimbBits - bits)
        hi    == 2^bits
        moved == [i \in 1..(Len(b) + 1) |->
                    (IF i <= Len(b) THEN (b[i] % lo) * hi ELSE 0) +
                    (IF i > 1 THEN b[i - 1] \div lo ELSE 0)]
    IN  IF b = <<>> THEN b
        ELSE [i \in 1..limbs |-> 0] \o BigNorm(moved)

\* floor(b / 2^k)
BigShr(b, k) ==
    LET limbs == k \div LimbBits
        bits  == k % LimbBits
        lo    == 2^bits
        hi    == 2^(LimbBits - bits)
        rest  == IF limbs >= Len(b) THEN <<>> ELSE SubSeq(b, limbs + 1, Len(b))
    IN  BigNorm([i \in 1..Len(rest) |->
            (rest[i] \div lo) +
            (IF i < Len(rest) THEN (rest[i + 1] % lo) * hi ELSE 0)])

\* floor(r / d) for r < d * LimbBase: the quotient of the leading bits,
\* which is at most 2 too large, corrected by comparison
Digit(r, d) ==
    LET sh  == BigBits(d) - LimbBits
        est == BigToInt(BigShr(r, sh)) \div BigToInt(BigShr(d, sh))
        c   == IF est >= LimbBase THEN LimbBase - 1 ELSE est
    IN  IF BigCmp(BigMul(d, c), r) <= 0 THEN c
        ELSE IF BigCmp(BigMul(d, c - 1), r) <= 0 THEN c - 1
        ELSE c - 2

\* quotient and remainder of a * LimbBase^n by d, for a < 2d and d of at
\* least LimbBits bits: one quotient limb for each power of LimbBase
RECURSIVE LongDiv(_, _, _)
LongDiv(a, d, n) ==
    IF n = 0
    THEN IF BigCmp(a, d) >= 0 THEN [q |-> <<1>>, r |-> BigSub(a, d)]
         ELSE [q |-> <<>>, r |-> a]
    ELSE LET p   == LongDiv(a, d, n - 1)
             r1  == IF p.r = <<>> THEN <<>> ELSE <<0>> \o p.r
             dig == Digit(r1, d)
         IN  [q |-> IF p.q = <<>> THEN BigOf(dig) ELSE <<dig>> \o p.q,
              r |-> BigSub(r1, BigMul(d, dig))]

FZero == [k |-> "num", s |-> 1, m |-> <<>>, e |-> 0]

FNaN == [k |-> "nan", s |-> 1, m |-> <<>>, e |-> 0]

FInf(sign) == [k |-> "inf", s |-> sign, m |-> <<>>, e |-> 0]

FIsZero(x) == x.k = "num" /\ x.m = <<>>

\* the double nearest to sign * n * 2^e, ties to even
RoundBig(sign, n, e) ==
    LET bits == BigBits(n)
    IN  IF bits = 0 THEN FZero
        ELSE IF bits <= MantBits
        THEN [k |-> "num", s |-> sign, m |-> BigShl(n, MantBits - bits),
              e |-> e - (MantBits - bits)]
        ELSE LET sh   == bits - MantBits
                 q    == BigShr(n, sh)
                 rem  == BigSub(n, BigShl(q, sh))
                 half == BigShl(<<1>>, sh - 1)
                 c    == BigCmp(rem, half)
                 up   == c > 0 \/ (c = 0 /\ BigOdd(q))
                 m1   == IF up THEN BigAddC(q, <<>>, 1) ELSE q
             IN  IF BigBits(m1) > MantBits
                 THEN [k |-> "num", s |-> sign, m |-> BigShr(m1, 1), e |-> e + sh + 1]
                 ELSE [k |-> "num", s |-> sign, m |-> m1, e |-> e + sh]

\* an integer as a double
FromInt(i) == RoundBig(IF i < 0 THEN -1 ELSE 1, BigOf(IF i < 0 THEN -i ELSE i), 0)

\* x / y
FDiv(x, y) ==
    IF x.k = "nan" \/ y.k = "nan" THEN FNaN
    ELSE IF x.k = "inf" THEN (IF y.k = "inf" THEN FNaN ELSE FInf(x.s * y.s))
    ELSE IF y.k = "inf" THEN FZero
    ELSE IF FIsZero(y) THEN (IF FIsZero(x) THEN FNaN ELSE FInf(x.s * y.s))
    ELSE IF FIsZero(x) THEN FZero
    ELSE LET d == LongDiv(x.m, y.m, 4)
             sticky == IF d.r = <<>> THEN 0 ELSE 1
         IN  RoundBig(x.s * y.s, BigAddC(BigMul(d.q, 2), <<>>, sticky),
                      x.e - y.e - 4 * LimbBits - 1)

\* x - y on finite operands
FSub(x, y) ==
    IF FIsZero(y) THEN x
    ELSE IF FIsZero(x) THEN [y EXCEPT !.s = -y.s]
    ELSE LET e  == IF x.e < y.e THEN x.e ELSE y.e
             a  == BigShl(x.m, x.e - e)
             b  == BigShl(y.m, y.e - e)
             ys == -y.s
         IN  IF x.s = ys THEN RoundBig(x.s, BigAdd(a, b), e)
             ELSE LET c == BigCmp(a, b)
                  IN  IF c = 0 THEN FZero
                      ELSE IF c > 0 THEN RoundBig(x.s, BigSub(a, b), e)
                      ELSE RoundBig(ys, BigSub(b, a), e)

\* x * c for a small positive integer c
FMulInt(x, c) ==
    IF x.k # "num" \/ FIsZero(x) THEN x
    ELSE RoundBig(x.s, BigMul(x.m, c), x.e)

\* x > c and x < c for an integer c; false on NaN
FCmp(x, y) ==
    IF x.s # y.s \/ FIsZero(x) \/ FIsZero(y)
    THEN (LET sx == IF FIsZero(x) THEN 0 ELSE x.s
              sy == IF FIsZero(y) THEN 0 ELSE y.s
          IN  IF sx < sy THEN -1 ELSE IF sx > sy THEN 1 ELSE 0)
    ELSE x.s * (IF x.e # y.e THEN (IF x.e < y.e THEN -1 ELSE 1)
                ELSE BigCmp(x.m, y.m))

FGt(x, c) ==
    CASE x.k = "num" -> FCmp(x, FromInt(c)) > 0
      [] x.k = "inf" -> x.s > 0
      [] OTHER -> FALSE

FLt(x, c) ==
    CASE x.k = "num" -> FCmp(x, FromInt(c)) < 0
      [] x.k = "inf" -> x.s < 0
      [] OTHER -> FALSE

\* x.toFixed(1): the integer n with n / 10 nearest to x, the larger n on a
\* tie, printed with the sign of x
toFixed1(x) ==
    CASE x.k = "nan" -> [k |-> "NaN", neg |-> FALSE, tenths |-> 0]
      [] x.k = "inf" -> [k |-> "Infinity", neg |-> x.s < 0, tenths |-> 0]
      [] OTHER ->
           IF FIsZero(x) THEN [k |-> "fixed", neg |-> FALSE, tenths |-> 0]
           ELSE LET m20 == BigMul(x.m, 20)
                    n == IF x.e >= 0 THEN BigShl(BigMul(x.m, 10), x.e)
                         ELSE BigShr(BigAdd(m20, BigShl(<<1>>, -x.e)), 1 - x.e)
                IN  [k |-> "fixed", neg |-> x.s < 0, tenths |-> BigToInt(n)]

----------------------------------------------------------------------------
(* Trend classifier *)

\* arr.slice(start, end)
Slice(arr, start, end) ==
    LET len  == Len(arr)
        from == IF start < 0 THEN (IF len + start < 0 THEN 0 ELSE len + start)
                ELSE (IF start > len THEN len ELSE start)
        to   == IF end < 0 THEN (IF len + end < 0 THEN 0 ELSE len + end)
                ELSE (IF end > len THEN len ELSE end)
    IN  IF to <= from THEN <<>> ELSE SubSeq(arr, from + 1, to)

\* {direction: 'flat', change: 0}
NoTrend == [direction |-> "flat",
            change |-> [k |-> "number", neg |-> FALSE, tenths |-> 0]]

\* ((recent - prior) / prior) * 100
PercentChange(recent, prior) == FMulInt(FDiv(FSub(recent, prior), prior), 100)

getTrendNoGuard(d, periods) ==
    LET recent == FDiv(FromInt(SeqSum(Slice(d, -periods, Len(d)))), FromInt(periods))
        prior  == FDiv(FromInt(SeqSum(Slice(d, -(periods * 2), -periods))),
                       FromInt(periods))
        change == PercentChange(recent, prior)
    IN  [direction |-> IF FGt(change, 2) THEN "up"
                       ELSE IF FLt(change, -2) THEN "down" ELSE "flat",
         change |-> toFixed1(change)]

getTrend(d, periods) ==
    IF Len(d) < periods + 1 THEN NoTrend
    ELSE getTrendNoGuard(d, periods)

\* months.map((_, i) => utilities.reduce((sum, u) => sum + obj[u.id][i], 0))
StatewideSeries(obj) ==
    [k \in 1..Len(months) |->
        SeqSum([j \in 1..Len(utilities) |-> At(obj, utilities[j], months[k])])]

\* selectedUtility === 'all' ? statewide series : obj[selectedUtility] || []
SeriesOf(obj) ==
    IF selectedUtility = "all" THEN StatewideSeries(obj)
    ELSE IF selectedUtility \in DOMAIN obj THEN obj[selectedUtility]
    ELSE <<>>

getAvg(arr, start, count) ==
    FDiv(FromInt(SeqSum(Slice(arr, start, start + count))), FromInt(count))

getTrendIcon(change) ==
    IF FGt(change, 2) THEN "Trending Up"
    ELSE IF FLt(change, -2) THEN "Trending Down"
    ELSE "Flat"

\* the trend of one series as the Arrears and Disconnections tabs compute it
InlineTrend(d) ==
    LET recent == getAvg(d, Len(d) - 3, 3)
        prior  == getAvg(d, Len(d) - 3 * 2, 3)
        change == PercentChange(recent, prior)
    IN  [text |-> getTrendIcon(change), change |-> toFixed1(change)]

\* Arrears Trend Indicator
ArrearsTrend ==
    [customers |-> InlineTrend(SeriesOf(arrearsCustomers)),
     balance   |-> InlineTrend(SeriesOf(arrearsBalance))]

\* Disconnections Trend Indicator: the trend of the disconnection counts
\* (the rate trend of the same block works on percentages with decimals)
DisconnectionsTrend ==
    [disconnections |-> InlineTrend(SeriesOf(disconnections))]

----------------------------------------------------------------------------
(* Geographic View.  Latitudes and longitudes are held in thousandths of a *)
(* degree, so that every coordinate of the source is an integer; pixel     *)
(* coordinates, metric values and lightness are exact fractions.           *)

\* a + c and c - x for an integer c
JSAdd(x, c) == IF x.k = "num" THEN Num(x.n + c * x.d, x.d) ELSE x

JSSubFrom(c, x) ==
    IF x.k = "num" THEN Num(c * x.d - x.n, x.d)
    ELSE IF x.k = "inf" THEN [x EXCEPT !.n = -x.n]
    ELSE x

\* a - b, a / b and a < b on finite numbers (b # 0 for the quotient)
NumSub(a, b) == Num(a.n * b.d - b.n * a.d, a.d * b.d)

NumAdd(a, b) == Num(a.n * b.d + b.n * a.d, a.d * b.d)

NumQuot(a, b) == Num(a.n * b.d, a.d * b.n)

NumLess(a, b) == a.n * b.d < b.n * a.d

Null == "null"

Box(latMin, latMax, lngMin, lngMax) ==
    [latMin |-> latMin, latMax |-> latMax, lngMin |-> lngMin, lngMax |-> lngMax]

\* const geoRegions
GeoRegionCatalogue ==
    [ statewide |-> Box(41950, 46300, -124600, -116450),
      portland  |-> Box(45300, 45750, -123150, -122250),
      salem     |-> Box(44100, 45300, -123850, -122350),
      southern  |-> Box(41950, 43700, -124200, -120800),
      central   |-> Box(43400, 45000, -122100, -119700),
      coast     |-> Box(44100, 46300, -124250, -123300),
      eastern   |-> Box(41950, 46050, -120100, -116850) ]

GeoRegionKeys == DOMAIN GeoRegionCatalogue

\* const geoMetricConfig (its keys)
GeoMetrics == {"arrears_rate", "disc_rate", "arrears_count", "disconnections"}

\* const geoMonthLabels (its keys)
GeoMonths == {"apr", "may", "jun"}

\* const geoUtilityNames (its keys, in order)
geoUtilityNames == <<"pge", "nwn", "avista", "cng", "pac", "ipco">>

mapWidth == 850

mapHeight == 520

bounds == geoRegions[geoRegion]

latMin == bounds.latMin

latMax == bounds.latMax

lngMin == bounds.lngMin

lngMax == bounds.lngMax

\* ((lng - lngMin) / (lngMax - lngMin)) * (mapWidth - 60) + 30
xScaleFlipped(lng) ==
    JSSubFrom(mapWidth - 30,
              JSMul(JSDiv(lng - lngMin, lngMax - lngMin), mapWidth - 60))

xScale(lng) ==
    JSAdd(JSMul(JSDiv(lng - lngMin, lngMax - lngMin), mapWidth - 60), 30)

\* mapHeight - 30 - ((lat - latMin) / (latMax - latMin)) * (mapHeight - 60)
yScale(lat) ==
    JSSubFrom(mapHeight - 30,
              JSMul(JSDiv(lat - latMin, latMax - latMin), mapHeight - 60))

getGeoMetricValue(d, month, metric) ==
    IF month \notin DOMAIN d \/ d[month].active = 0 THEN Int2Num(0)
    ELSE CASE metric = "arrears_rate" ->
                IF d[month].active > 0
                THEN JSMul(JSDiv(d[month].arrears, d[month].active), 100)
                ELSE Int2Num(0)
           [] metric = "disc_rate" ->
                IF d[month].active > 0
                THEN JSMul(JSDiv(d[month].disc, d[month].active), 100)
                ELSE Int2Num(0)
           [] metric = "arrears_count" -> Int2Num(d[month].arrears)
           [] metric = "disconnections" -> Int2Num(d[month].disc)
           [] OTHER -> Int2Num(0)

utilKeysWhileHovering ==
    IF geoUtility = "all" /\ geoHover = "null"
    THEN <<"pge", "nwn", "avista", "cng", "pac", "ipco">>
    ELSE <<"pge">>

utilKeys ==
    IF geoUtility = "all" THEN <<"pge", "nwn", "avista", "cng", "pac", "ipco">>
    ELSE <<geoUtility>>

\* the records of one utility that allGeoData receives:
\* if (d[geoMonth]?.active > 20) allGeoData.push({...d, utility, value})
Pushed(uk) ==
    IF uk \notin DOMAIN geoZipData THEN <<>>
    ELSE LET Keep(d) == geoMonth \in DOMAIN d /\ d[geoMonth].active > 20
             kept == SelectSeq(geoZipData[uk], Keep)
         IN  [k \in 1..Len(kept) |->
                [zip |-> kept[k].zip, lat |-> kept[k].lat, lng |-> kept[k].lng,
                 apr |-> kept[k].apr, may |-> kept[k].may, jun |-> kept[k].jun,
                 utility |-> uk,
                 value |-> getGeoMetricValue(kept[k], geoMonth, geoMetric)]]

RECURSIVE Collect(_)
Collect(keys) ==
    IF keys = <<>> THEN <<>> ELSE Pushed(Head(keys)) \o Collect(Tail(keys))

\* sort((a, b) => b.value - a.value): descending, stable
RECURSIVE InsertDescAfterTies(_, _)
InsertDescAfterTies(x, sorted) ==
    IF sorted = <<>> THEN <<x>>
    ELSE IF ~NumLess(Head(sorted).value, x.value)
         THEN <<Head(sorted)>> \o InsertDescAfterTies(x, Tail(sorted))
         ELSE <<x>> \o sorted

RECURSIVE InsertDesc(_, _)
InsertDesc(x, sorted) ==
    IF sorted = <<>> THEN <<x>>
    ELSE IF NumLess(x.value, Head(sorted).value)
         THEN <<Head(sorted)>> \o InsertDesc(x, Tail(sorted))
         ELSE <<x>> \o sorted

RECURSIVE SortDesc(_)
SortDesc(recs) ==
    IF recs = <<>> THEN <<>> ELSE InsertDesc(Head(recs), SortDesc(Tail(recs)))

allGeoData == SortDesc(Collect(utilKeys))

InBoxLatOnly(d) == d.lat >= latMin /\ d.lat <= latMax

InBox(d) ==
    d.lat >= latMin /\ d.lat <= latMax /\ d.lng >= lngMin /\ d.lng <= lngMax

filteredGeoData ==
    LET kept == SelectSeq(allGeoData, InBox)
    IN  [k \in 1..Len(kept) |->
            [zip |-> kept[k].zip, lat |-> kept[k].lat, lng |-> kept[k].lng,
             apr |-> kept[k].apr, may |-> kept[k].may, jun |-> kept[k].jun,
             utility |-> kept[k].utility, value |-> kept[k].value,
             x |-> xScale(kept[k].lng), y |-> yScale(kept[k].lat)]]

\* allGeoData.map(d => d.value).filter(v => v > 0)
geoValues ==
    LET Positive(v) == NumLess(Int2Num(0), v)
        all == allGeoData
    IN  SelectSeq([k \in 1..Len(all) |-> all[k].value], Positive)

SeqMin(vs) ==
    CHOOSE v \in {vs[k] : k \in 1..Len(vs)} :
        \A k \in 1..Len(vs) : ~NumLess(vs[k], v)

SeqMax(vs) ==
    CHOOSE v \in {vs[k] : k \in 1..Len(vs)} :
        \A k \in 1..Len(vs) : ~NumLess(v, vs[k])

geoMinVal ==
    LET vs == geoValues IN IF Len(vs) > 0 THEN SeqMin(vs) ELSE Int2Num(0)

geoMaxVal ==
    LET vs == geoValues IN IF Len(vs) > 0 THEN SeqMax(vs) ELSE Int2Num(1)

\* getGeoColor: const t
geoT(value) ==
    LET lo == geoMinVal
        hi == geoMaxVal
    IN  IF NumLess(lo, hi) THEN NumQuot(NumSub(value, lo), NumSub(hi, lo))
        ELSE Int2Num(0)

\* getGeoColor: const l = 82 - t * 42
LightnessRising(value) == JSAdd(JSMul(geoT(value), 42), 40)

Lightness(value) ==
    LET t == geoT(value) IN Num(82 * t.d - 42 * t.n, t.d)

getGeoColor(value, util) ==
    LET l == Lightness(value)
    IN  CASE util = "pge"    -> [h |-> 142, s |-> 65, l |-> l]
          [] util = "nwn"    -> [h |-> 217, s |-> 80, l |-> l]
          [] util = "avista" -> [h |-> 25,  s |-> 85, l |-> l]
          [] util = "cng"    -> [h |-> 271, s |-> 70, l |-> l]
          [] util = "ipco"   -> [h |-> 188, s |-> 85, l |-> l]
          [] OTHER           -> [h |-> 0,   s |-> 70, l |-> l]

activeZipHoverFirst == IF geoHover # Null THEN geoHover ELSE geoSelected

activeZip == IF geoSelected # Null THEN geoSelected ELSE geoHover

activeItems ==
    IF activeZip # Null
    THEN LET Same(d) == d.zip = activeZip IN SelectSeq(filteredGeoData, Same)
    ELSE <<>>

isStatewide == geoRegion = "statewide"

\* {geoHover && !geoSelected && activeItems.length > 0 && (<tooltip/>)}
HoverTooltip ==
    geoHover # Null /\ geoSelected = Null /\ Len(activeItems) > 0

\* sameZip.indexOf(d)
IndexOf(recs, d) == CHOOSE k \in 1..Len(recs) :
                        recs[k] = d /\ \A j \in 1..(k - 1) : recs[j] # d

\* (zipIdx - (sameZip.length - 1) / 2) * (isStatewide ? 6 : 12)
MarkerOffsetUnspread(zipIdx, n) == Int2Num(0)

MarkerOffset(zipIdx, n) ==
    IF n > 1 THEN Num((2 * zipIdx - (n - 1)) * (IF isStatewide THEN 6 ELSE 12), 2)
    ELSE Int2Num(0)

\* ZIP code circles: the <g> of record d of the displayed records
Marker(displayed, d) ==
    LET Same(e) == e.zip = d.zip
        sameZip == SelectSeq(displayed, Same)
        zipIdx  == IndexOf(sameZip, d) - 1
        offset  == MarkerOffset(zipIdx, Len(sameZip))
    IN  [zip |-> d.zip, utility |-> d.utility, record |-> d,
         offset |-> offset,
         cx |-> IF d.x.k = "num" THEN NumAdd(d.x, offset) ELSE d.x,
         cy |-> d.y,
         r  |-> IF isStatewide THEN 5 ELSE 9,
         fill |-> getGeoColor(d.value, d.utility),
         ring |-> d.zip = activeZip]

Markers ==
    LET displayed == filteredGeoData
    IN  [k \in 1..Len(displayed) |-> Marker(displayed, displayed[k])]

\* Top by metric: (isStatewide ? allGeoData : filteredGeoData).slice(0, 50)
RankedRowsUnfiltered == allGeoData

RankedRows == IF isStatewide THEN allGeoData ELSE filteredGeoData

TopListUncut == RankedRows

TopList == LET rows == RankedRows IN Slice(rows, 0, ListLimit)

\* the ZIP codes that carry mouse handlers: map markers and list rows
Targets ==
    LET displayed == filteredGeoData
        rows == TopList
    IN  {displayed[k].zip : k \in 1..Len(displayed)}
            \cup {rows[k].zip : k \in 1..Len(rows)}

(* The ZIP-level store explored: five records of the source's ZIP codes    *)
(* (97003 served by pge and nwn, 97914 by cng and ipco, 97701 by pac).     *)
(* April holds the same counts everywhere, May has no disconnections, and  *)
(* June varies; in June cng reports 20 active accounts for 97914, which is *)
(* not above the display threshold.                                        *)

MonthData(active, arrears, disc) ==
    [active |-> active, arrears |-> arrears, disc |-> disc]

ZipRecord(zip, lat, lng, apr, may, jun) ==
    [zip |-> zip, lat |-> lat, lng |-> lng, apr |-> apr, may |-> may, jun |-> jun]

GeoStore(x, y) ==
    [ pge    |-> << ZipRecord("97003", 45527, -122887, MonthData(50, 5, 1),
                              MonthData(50, 1, 0), MonthData(50, y, 1)) >>,
      nwn    |-> << ZipRecord("97003", 45527, -122887, MonthData(50, 5, 1),
                              MonthData(50, 2, 0), MonthData(50, 2, x)) >>,
      avista |-> << >>,
      cng    |-> << ZipRecord("97914", 44050, -116970, MonthData(50, 5, 1),
                              MonthData(50, 3, 0), MonthData(20, 3, 2)) >>,
      pac    |-> << ZipRecord("97701", 44060, -121310, MonthData(50, 5, 1),
                              MonthData(50, 2, 0), MonthData(50, 1, 2)) >>,
      ipco   |-> << ZipRecord("97914", 44050, -116970, MonthData(50, 5, 1),
                              MonthData(50, 4, 0), MonthData(40, 4, 0)) >> ]

\* useState of the Geographic View
GeoStateInit ==
    /\ geoMonth = "jun"
    /\ geoMetric = "arrears_rate"
    /\ geoUtility = "all"
    /\ geoHover = Null
    /\ geoSelected = Null
    /\ geoRegion = "statewide"

\* the Geographic View as loaded when another view is explored
GeoIdle ==
    /\ geoZipData = GeoStore(1, 1)
    /\ geoRegions = GeoRegionCatalogue
    /\ GeoStateInit

----------------------------------------------------------------------------
(* Reads of a store that lacks a utility or a month.  obj[id][idx] throws  *)
(* a TypeError when obj[id] is undefined, and reads undefined past the end *)
(* of the series; a sum that meets undefined is NaN.                       *)

TypeError == [k |-> "TypeError", n |-> 0, d |-> 1]

Undefined == [k |-> "undefined", n |-> 0, d |-> 1]

\* obj[id][idx]
Read(obj, id, idx) ==
    IF id \notin DOMAIN obj THEN TypeError
    ELSE IF (idx + 1) \notin DOMAIN obj[id] THEN Undefined
    ELSE Int2Num(obj[id][idx + 1])

\* utilities.reduce((s, u) => s + (obj[u.id]?.[i] || 0), 0)
ReduceGuarded(obj, i) == Int2Num(sumArray(obj, i))

\* utilities.reduce((s, u) => s + obj[u.id][i], 0)
Reduce(obj, i) ==
    LET cells == [j \in 1..Len(utilities) |-> Read(obj, utilities[j], i)]
    IN  IF \E j \in 1..Len(utilities) : cells[j] = TypeError THEN TypeError
        ELSE IF \E j \in 1..Len(utilities) : cells[j] = Undefined THEN NaN
        ELSE Int2Num(SeqSum([j \in 1..Len(utilities) |-> cells[j].n]))

\* months.map((_, i) => utilities.reduce((s, u) => s + obj[u.id][i], 0)):
\* the series of the overview trends and of the 'all' trend indicators;
\* an exception in one month aborts the whole map
ReducedSeries(obj) ==
    LET rows == [k \in 1..Len(months) |-> Reduce(obj, months[k])]
    IN  IF \E k \in 1..Len(months) : rows[k] = TypeError
        THEN [k |-> "TypeError", rows |-> <<>>]
        ELSE [k |-> "series", rows |-> rows]

\* the series of the per-tab trend indicators
IndicatorSeries(obj) ==
    IF selectedUtility = "all" THEN ReducedSeries(obj)
    ELSE [k |-> "series",
          rows |-> IF selectedUtility \in DOMAIN obj
                   THEN [k \in 1..Len(obj[selectedUtility]) |->
                            Int2Num(obj[selectedUtility][k])]
                   ELSE <<>>]

----------------------------------------------------------------------------
(* The loaded store.  Every series has one value per month.  The stores    *)
(* explored are those in which two utilities a and b carry chosen values   *)
(* in one month m0, and every other cell holds a background value.         *)

Series(bg, a, xa, b, xb, m0) ==
    [u \in UtilityIds |->
        [k \in 1..NumMonths |->
            IF k - 1 = m0 /\ u = a THEN xa
            ELSE IF k - 1 = m0 /\ u = b THEN xb
            ELSE bg]]

\* the months in which a store deviates from its background: the first of
\* the window and the current one
FocusMonths == {0, currentMonth}

FlatOneMonthShort(v) == [u \in UtilityIds |-> [k \in 1..(NumMonths - 1) |-> v]]

Flat(v) == [u \in UtilityIds |-> [k \in 1..NumMonths |-> v]]


\* a store of the aggregation views: accounts and values vary
AggStore(a, b, m0, bw, wa, wb, va, vb) ==
      [ accounts |-> Series(bw, a, wa, b, wb, m0),
        avgBill  |-> Series(1, a, va, b, vb, m0),
        avgUsage |-> Series(1, a, vb, b, va, m0),
        arrearsCustomers |-> Series(1, a, va, b, vb, m0),
        arrearsBalance   |-> Series(bw, a, vb, b, va, m0),
        disconnections   |-> Series(bw, a, wa, b, wb, m0),
        reconnections    |-> Flat(1),
        billDiscountParticipants   |-> Series(1, a, wb, b, wa, m0),
        billDiscountDisconnections |-> Flat(1),
        billDiscountParticipantsWithArrears |-> Flat(1),
        billDiscountArrearsBalance |-> Flat(1) ]

LoadStore(st) ==
    /\ accounts = st.accounts
    /\ avgBill = st.avgBill
    /\ avgUsage = st.avgUsage
    /\ arrearsCustomers = st.arrearsCustomers
    /\ arrearsBalance = st.arrearsBalance
    /\ disconnections = st.disconnections
    /\ reconnections = st.reconnections
    /\ billDiscountParticipants = st.billDiscountParticipants
    /\ billDiscountDisconnections = st.billDiscountDisconnections
    /\ billDiscountParticipantsWithArrears = st.billDiscountParticipantsWithArrears
    /\ billDiscountArrearsBalance = st.billDiscountArrearsBalance

\* a store of the rate views: utility a carries the counts x, y, z in
\* month m0
RateStore(a, m0, x, y, z) ==
      [ accounts |-> Series(1, a, x, a, x, m0),
        avgBill  |-> Flat(1),
        avgUsage |-> Flat(1),
        arrearsCustomers |-> Series(1, a, z, a, z, m0),
        arrearsBalance   |-> Series(1, a, y, a, y, m0),
        disconnections   |-> Series(1, a, x, a, x, m0),
        reconnections    |-> Series(1, a, y, a, y, m0),
        billDiscountParticipants   |-> Series(1, a, z, a, z, m0),
        billDiscountDisconnections |-> Series(1, a, y, a, y, m0),
        billDiscountParticipantsWithArrears |-> Series(1, a, x, a, x, m0),
        billDiscountArrearsBalance |-> Series(1, a, y, a, y, m0) ]

\* a series d as the store holds it: one value per month, the months
\* before the first value of d holding 0
Pad(d) ==
    [k \in 1..NumMonths |->
        IF k > NumMonths - Len(d) THEN d[k - (NumMonths - Len(d))] ELSE 0]

\* a store whose arrears and disconnection series are d for every utility
TrendStore(d) ==
      [ accounts |-> Flat(1),
        avgBill  |-> Flat(1),
        avgUsage |-> Flat(1),
        arrearsCustomers |-> [u \in UtilityIds |-> Pad(d)],
        arrearsBalance   |-> [u \in UtilityIds |-> Pad(d)],
        disconnections   |-> [u \in UtilityIds |-> Pad(d)],
        reconnections    |-> Flat(1),
        billDiscountParticipants   |-> Flat(1),
        billDiscountDisconnections |-> Flat(1),
        billDiscountParticipantsWithArrears |-> Flat(1),
        billDiscountArrearsBalance |-> Flat(1) ]

\* useState('all')
Init ==
    /\ \E ka \in 1..Len(utilities) : \E kb \in ka..Len(utilities) :
       \E m0 \in FocusMonths, bw \in 0..1 :
       \E wa \in 0..MaxAcct, wb \in 0..MaxAcct :
       \E va \in 0..MaxVal, vb \in 0..MaxVal :
          LoadStore(AggStore(utilities[ka], utilities[kb], m0, bw,
                             wa, wb, va, vb))
    /\ selectedUtility = "all"
    /\ data = <<>>
    /\ trend = NoTrend
    /\ GeoIdle

\* UtilityFilter: onClick={() => setSelectedUtility('all')}
SelectAll ==
    /\ selectedUtility' = "all"
    /\ UNCHANGED <<storeVars, data, trend, geoVars>>

\* UtilityFilter: onClick={() => setSelectedUtility(u.id)}
SelectUtility(id) ==
    /\ selectedUtility' = id
    /\ UNCHANGED <<storeVars, data, trend, geoVars>>

InitRate ==
    /\ \E ka \in 1..Len(utilities), m0 \in FocusMonths :
       \E x \in 0..MaxVal, y \in 0..MaxVal, z \in 0..MaxVal :
          LoadStore(RateStore(utilities[ka], m0, x, y, z))
    /\ selectedUtility = "all"
    /\ data = <<>>
    /\ trend = NoTrend
    /\ GeoIdle

\* the series explored: months of no activity followed by sample values
InitTrend ==
    /\ \E len \in 0..NumMonths : \E z \in 0..len :
       \E d \in [1..(len - z) -> SampleValues] :
          /\ data = [k \in 1..z |-> 0] \o d
          /\ LoadStore(TrendStore([k \in 1..z |-> 0] \o d))
    /\ selectedUtility = "all"
    /\ trend = NoTrend
    /\ GeoIdle

\* getTrend(data)
ClassifyTrend ==
    /\ trend' = getTrend(data, 3)
    /\ UNCHANGED <<storeVars, selectedUtility, data, geoVars>>

\* getTrend(data.map(v => k * v))
Scaled(d, k) == [i \in 1..Len(d) |-> k * d[i]]

ClassifyScaled(k) ==
    /\ trend' = getTrend(Scaled(data, k), 3)
    /\ UNCHANGED <<storeVars, selectedUtility, data, geoVars>>

\* a store in which utility a has no entry for one metric (kind "absent")
\* or no value for the current month (kind "short"); every value is v
MissingKinds == {"absent", "short"}

MissingMetrics ==
    {"arrearsCustomers", "arrearsBalance", "disconnections",
     "billDiscountParticipants", "accounts"}

Lacking(a, kind, v) ==
    IF kind = "absent"
    THEN [u \in UtilityIds \ {a} |-> [k \in 1..NumMonths |-> v]]
    ELSE [u \in UtilityIds |->
            [k \in 1..(IF u = a THEN NumMonths - 1 ELSE NumMonths) |-> v]]

MissingStore(a, metric, kind, v) ==
    [[f \in {"accounts", "avgBill", "avgUsage", "arrearsCustomers",
             "arrearsBalance", "disconnections", "reconnections",
             "billDiscountParticipants", "billDiscountDisconnections",
             "billDiscountParticipantsWithArrears",
             "billDiscountArrearsBalance"} |-> Flat(v)]
        EXCEPT ![metric] = Lacking(a, kind, v)]

InitMissing ==
    /\ \E ka \in 1..Len(utilities), metric \in MissingMetrics :
       \E kind \in MissingKinds, v \in 1..MaxVal :
          LoadStore(MissingStore(utilities[ka], metric, kind, v))
    /\ selectedUtility = "all"
    /\ data = <<>>
    /\ trend = NoTrend
    /\ GeoIdle

Next ==
    \/ SelectAll
    \/ \E k \in 1..Len(utilities) : SelectUtility(utilities[k])

Spec == Init /\ [][Next]_vars

\* the dashboard over the stores of the rate views
SpecRate == InitRate /\ [][Next]_vars

\* the dashboard over stores that lack a utility or a month
SpecMissing == InitMissing /\ [][Next]_vars

NextTrend ==
    \/ SelectAll
    \/ \E k \in 1..Len(utilities) : SelectUtility(utilities[k])
    \/ ClassifyTrend
    \/ \E k \in 2..MaxScale : ClassifyScaled(k)

\* the trend classifier applied to the series of the store
SpecTrend == InitTrend /\ [][NextTrend]_vars

----------------------------------------------------------------------------
(* The Geographic View: its selections and its mouse handlers              *)

\* ZIP-level disconnection counts range over 0..MaxDisc
MaxDisc == 1

\* ZIP-level counts of customers in arrears
ArrearsLevels == {1, 2}

otherVars == <<storeVars, selectedUtility, data, trend, geoStoreVars>>

InitGeo ==
    /\ LoadStore(RateStore("pge", 0, 1, 1, 1))
    /\ selectedUtility = "all"
    /\ data = <<>>
    /\ trend = NoTrend
    /\ \E x \in 0..MaxDisc, y \in ArrearsLevels :
          geoZipData = GeoStore(x, y)
    /\ geoRegions = GeoRegionCatalogue
    /\ GeoStateInit

\* <select value={geoRegion} onChange={e => setGeoRegion(e.target.value)}>
SetGeoRegion(r) ==
    /\ r \in DOMAIN geoRegions
    /\ geoRegion' = r
    /\ UNCHANGED <<otherVars, geoMonth, geoMetric, geoUtility, geoHover,
                   geoSelected>>

\* <select value={geoUtility} onChange={e => setGeoUtility(e.target.value)}>
SetGeoUtility(u) ==
    /\ geoUtility' = u
    /\ UNCHANGED <<otherVars, geoMonth, geoMetric, geoHover, geoSelected,
                   geoRegion>>

\* <select value={geoMonth} onChange={e => setGeoMonth(e.target.value)}>
SetGeoMonth(m) ==
    /\ geoMonth' = m
    /\ UNCHANGED <<otherVars, geoMetric, geoUtility, geoHover, geoSelected,
                   geoRegion>>

\* <select value={geoMetric} onChange={e => setGeoMetric(e.target.value)}>
SetGeoMetric(k) ==
    /\ geoMetric' = k
    /\ UNCHANGED <<otherVars, geoMonth, geoUtility, geoHover, geoSelected,
                   geoRegion>>

\* onMouseEnter={() => setGeoHover(d.zip)}
MouseEnter(zip) ==
    /\ geoHover' = zip
    /\ UNCHANGED <<otherVars, geoMonth, geoMetric, geoUtility, geoSelected,
                   geoRegion>>

\* onMouseLeave={() => setGeoHover(null)}
MouseLeave ==
    /\ geoHover # Null
    /\ geoHover' = Null
    /\ UNCHANGED <<otherVars, geoMonth, geoMetric, geoUtility, geoSelected,
                   geoRegion>>

\* onClick={() => setGeoSelected(geoSelected === d.zip ? null : d.zip)}
ClickZip(zip) ==
    /\ geoSelected' = IF geoSelected = zip THEN Null ELSE zip
    /\ UNCHANGED <<otherVars, geoMonth, geoMetric, geoUtility, geoHover,
                   geoRegion>>

\* {geoSelected && <button onClick={() => setGeoSelected(null)}>}
ClearSelected ==
    /\ Len(activeItems) > 0
    /\ geoSelected # Null
    /\ geoSelected' = Null
    /\ UNCHANGED <<otherVars, geoMonth, geoMetric, geoUtility, geoHover,
                   geoRegion>>

NextGeo ==
    \/ \E r \in GeoRegionKeys : SetGeoRegion(r)
    \/ SetGeoUtility("all")
    \/ \E k \in 1..Len(geoUtilityNames) : SetGeoUtility(geoUtilityNames[k])
    \/ \E m \in GeoMonths : SetGeoMonth(m)
    \/ \E k \in GeoMetrics : SetGeoMetric(k)
    \/ \E zip \in Targets : MouseEnter(zip)
    \/ MouseLeave
    \/ \E zip \in Targets : ClickZip(zip)
    \/ ClearSelected

\* the Geographic View over the source's region catalogue
SpecGeo == InitGeo /\ [][NextGeo]_vars

\* a catalogue in which region r has collapsed to the line lat = at (axis
\* "lat") or lng = at (axis "lng")
Collapsed(r, axis, at) ==
    [GeoRegionCatalogue EXCEPT
        ![r] = IF axis = "lat"
               THEN [@ EXCEPT !.latMin = at, !.latMax = at]
               ELSE [@ EXCEPT !.lngMin = at, !.lngMax = at]]

\* where a region collapses: onto its own southern / western edge, or onto
\* the line through ZIP 97003
CollapseLines(r, axis) ==
    IF axis = "lat" THEN {GeoRegionCatalogue[r].latMin, 45527}
    ELSE {GeoRegionCatalogue[r].lngMin, -122887}

InitGeoCollapsed ==
    /\ LoadStore(RateStore("pge", 0, 1, 1, 1))
    /\ selectedUtility = "all"
    /\ data = <<>>
    /\ trend = NoTrend
    /\ geoZipData = GeoStore(1, 1)
    /\ \E r \in {"statewide", "portland"}, axis \in {"lat", "lng"} :
       \E at \in CollapseLines(r, axis) :
          geoRegions = Collapsed(r, axis, at)
    /\ GeoStateInit

\* the Geographic View over a catalogue with a collapsed region
SpecGeoCollapsed == InitGeoCollapsed /\ [][NextGeo]_vars

----------------------------------------------------------------------------
(* The Export tab: the time-series sheets built by the button's onClick.    *)
(* A data row is its month followed by its cells; a cell carries the       *)
(* utility and the series it was read from.  Title and header rows carry   *)
(* no data and are left out, as is the Summary sheet; the columns of       *)
(* series that are not in the store above (discPct, billDiscountDollars,   *)
(* the three age buckets) are left out of their sheets.                    *)

\* obj[u.id][i]
ExportCell(metric, obj, u, i) ==
    [utility |-> u, metric |-> metric, value |-> Read(obj, u, i)]

\* ...months.map((month, i) => [month, ...utilities.map(u => a[u.id][i]),
\*                                     ...utilities.map(u => b[u.id][i])])
MonthRows(cols) ==
    [k \in 1..Len(months) |->
        [month |-> months[k],
         cells |-> [c \in 1..(Len(cols) * Len(utilities)) |->
                      LET col == cols[((c - 1) \div Len(utilities)) + 1]
                          u   == utilities[((c - 1) % Len(utilities)) + 1]
                      IN  ExportCell(col.metric, col.obj, u, months[k])]]]

arrearsCustomersData ==
    [name |-> "Arrears - Customers",
     rows |-> MonthRows(<<[metric |-> "arrearsCustomers", obj |-> arrearsCustomers]>>)]

arrearsBalanceData ==
    [name |-> "Arrears - Balance",
     rows |-> MonthRows(<<[metric |-> "arrearsBalance", obj |-> arrearsBalance]>>)]

\* ...months.flatMap((month, i) => utilities.map(u =>
\*       [month, u.name, <the three buckets>, arrearsBalance[u.id][i]]))
arrearsBucketData ==
    [name |-> "Arrears - By Bucket",
     rows |-> [n \in 1..(Len(months) * Len(utilities)) |->
                 LET i == months[((n - 1) \div Len(utilities)) + 1]
                     u == utilities[((n - 1) % Len(utilities)) + 1]
                 IN  [month |-> i,
                      cells |-> <<ExportCell("arrearsBalance", arrearsBalance, u, i)>>]]]

disconnectionsData ==
    [name |-> "Disconnections",
     rows |-> MonthRows(<<[metric |-> "disconnections", obj |-> disconnections]>>)]

billDiscountData ==
    [name |-> "Bill Discounts",
     rows |-> MonthRows(<<[metric |-> "billDiscountParticipants",
                           obj |-> billDiscountParticipants]>>)]

avgBillUsageData ==
    [name |-> "Avg Bill & Usage",
     rows |-> MonthRows(<<[metric |-> "avgBill", obj |-> avgBill],
                          [metric |-> "avgUsage", obj |-> avgUsage]>>)]

accountsData ==
    [name |-> "Active Accounts",
     rows |-> MonthRows(<<[metric |-> "accounts", obj |-> accounts]>>)]

\* XLSX.utils.book_append_sheet(wb, ...), sheets 2 to 8 in order
ExportSheets ==
    << arrearsCustomersData, arrearsBalanceData, arrearsBucketData,
       disconnectionsData, billDiscountData, avgBillUsageData, accountsData >>

----------------------------------------------------------------------------
(* Definitions used to state the properties: the quantities of the         *)
(* specification, read straight from the store.                            *)

RECURSIVE SetSum(_, _)
SetSum(f, S) ==
    IF S = {} THEN 0
    ELSE LET x == CHOOSE y \in S : TRUE IN f[x] + SetSum(f, S \ {x})

MonthIdx == 0..(NumMonths - 1)

Electric == {"pge", "pac", "ipco"}

Gas == {"nwn", "cng", "avista"}

\* sum of the weights, and of weight x value, over the utilities of `scope`
TotalWeight(scope, i) == SetSum([u \in scope |-> accounts[u][i + 1]], scope)

TotalWeighted(obj, scope, i) ==
    SetSum([u \in scope |-> accounts[u][i + 1] * obj[u][i + 1]], scope)

TotalOf(obj, scope, i) == SetSum([u \in scope |-> obj[u][i + 1]], scope)

MinOf(obj, scope, i) ==
    CHOOSE v \in {obj[u][i + 1] : u \in scope} :
        \A u \in scope : v <= obj[u][i + 1]

MaxOf(obj, scope, i) ==
    CHOOSE v \in {obj[u][i + 1] : u \in scope} :
        \A u \in scope : v >= obj[u][i + 1]

\* x is exactly w / t
IsQuotient(x, w, t) == x.k = "num" /\ x.n * t = w * x.d

\* x is the integer nearest to w / t (t > 0), a half rounding up
IsRoundedQuotient(x, w, t) ==
    /\ x.k = "num" /\ x.d = 1
    /\ 2 * x.n * t <= 2 * w + t
    /\ 2 * w + t < 2 * x.n * t + 2 * t

IsZero(x) == x = [k |-> "num", n |-> 0, d |-> 1]

Between(x, lo, hi) == x.k = "num" /\ lo * x.d <= x.n /\ x.n <= hi * x.d

----------------------------------------------------------------------------
(* C1: in every month the statewide average bill is the account-weighted   *)
(* average sum(accounts x bill) / sum(accounts) over the six utilities:    *)
(* exactly in the series fed to getTrend, rounded to the nearest integer   *)
(* on the overview card and in the bill chart under 'all'.                 *)
C1_WeightedAverageBill ==
    \A i \in MonthIdx :
        LET w == TotalWeighted(avgBill, UtilityIds, i)
            t == TotalWeight(UtilityIds, i)
        IN  t > 0 =>
              /\ IsQuotient(avgBillTrend[i + 1], w, t)
              /\ (selectedUtility = "all"
                    => IsRoundedQuotient(BillChart[i + 1].value, w, t))
              /\ (i = currentMonth => IsRoundedQuotient(totals.avgBill, w, t))

\* the weighted figure is shown and differs from the unweighted mean
C1_Witness ==
    LET w == TotalWeighted(avgBill, UtilityIds, currentMonth)
        t == TotalWeight(UtilityIds, currentMonth)
        b == TotalOf(avgBill, UtilityIds, currentMonth)
    IN  /\ selectedUtility = "all"
        /\ t > 0
        /\ totals.avgBill # MathRound(JSDiv(b, Cardinality(UtilityIds)))
        /\ BillChart[currentMonth + 1].value = totals.avgBill
        /\ \E u \in UtilityIds : accounts[u][currentMonth + 1] > 1

(* C2: every weighted average is a finite number, and is exactly 0 when    *)
(* the account counts of the utilities in its scope sum to 0.              *)
C2_ZeroWeightGivesZero ==
    LET cards == totals
        wAll  == TotalWeight(UtilityIds, currentMonth)
        wEl   == TotalWeight(Electric, currentMonth)
        wGas  == TotalWeight(Gas, currentMonth)
    IN  /\ IsFinite(cards.avgBill)
        /\ IsFinite(cards.avgElectricUsage)
        /\ IsFinite(cards.avgGasUsage)
        /\ (wAll = 0 => IsZero(cards.avgBill))
        /\ (wEl = 0 => IsZero(cards.avgElectricUsage))
        /\ (wGas = 0 => IsZero(cards.avgGasUsage))
        /\ \A i \in MonthIdx :
            LET tAll  == TotalWeight(UtilityIds, i)
                tEl   == TotalWeight(Electric, i)
                inTrend == avgBillTrend[i + 1]
                bill  == BillChart[i + 1].value
                usage == UsageChart[i + 1].value
            IN  /\ IsFinite(inTrend)
                /\ IsFinite(bill)
                /\ IsFinite(usage)
                /\ (tAll = 0 => IsZero(inTrend))
                /\ (selectedUtility = "all" /\ tAll = 0 => IsZero(bill))
                /\ (selectedUtility = "all" /\ tEl = 0 => IsZero(usage))

\* no utility has an account in the current month, yet bills are positive
C2_Witness ==
    /\ selectedUtility = "all"
    /\ TotalWeight(UtilityIds, currentMonth) = 0
    /\ TotalOf(avgBill, UtilityIds, currentMonth) > 0
    /\ IsZero(totals.avgBill)
    /\ IsZero(BillChart[currentMonth + 1].value)

(* C3: with a single utility selected, the bill chart and the usage chart  *)
(* show that utility's raw series value in every month.                    *)
C3_SingleUtilityIsIdentity ==
    selectedUtility # "all" =>
        \A i \in MonthIdx :
            /\ BillChart[i + 1].value = Int2Num(avgBill[selectedUtility][i + 1])
            /\ UsageChart[i + 1].value = Int2Num(avgUsage[selectedUtility][i + 1])

\* a single utility is selected whose bill is not the statewide average
C3_Witness ==
    /\ selectedUtility # "all"
    /\ \E i \in MonthIdx :
        /\ TotalWeight(UtilityIds, i) > 0
        /\ ~IsRoundedQuotient(Int2Num(avgBill[selectedUtility][i + 1]),
                              TotalWeighted(avgBill, UtilityIds, i),
                              TotalWeight(UtilityIds, i))
        /\ BillChart[i + 1].value = Int2Num(avgBill[selectedUtility][i + 1])

(* C4, as stated: for every assignment of non-negative account counts the  *)
(* weighted average returned lies between the least and the greatest value *)
(* of the utilities in scope.                                              *)
C4_AlwaysWithinRange ==
    LET cards == totals IN
    /\ Between(cards.avgBill, MinOf(avgBill, UtilityIds, currentMonth),
               MaxOf(avgBill, UtilityIds, currentMonth))
    /\ Between(cards.avgElectricUsage, MinOf(avgUsage, Electric, currentMonth),
               MaxOf(avgUsage, Electric, currentMonth))
    /\ Between(cards.avgGasUsage, MinOf(avgUsage, Gas, currentMonth),
               MaxOf(avgUsage, Gas, currentMonth))
    /\ \A i \in MonthIdx :
        LET loBill == MinOf(avgBill, UtilityIds, i)
            hiBill == MaxOf(avgBill, UtilityIds, i)
        IN  /\ Between(avgBillTrend[i + 1], loBill, hiBill)
            /\ (selectedUtility = "all" =>
                    /\ Between(BillChart[i + 1].value, loBill, hiBill)
                    /\ Between(UsageChart[i + 1].value,
                               MinOf(avgUsage, Electric, i),
                               MaxOf(avgUsage, Electric, i)))

(* C4, amended: whenever the account counts of the utilities in scope sum  *)
(* to more than 0, the weighted average returned, rounded or not, lies     *)
(* between the least and the greatest value of those utilities.            *)
C4_WithinRangeWhenWeighted ==
    LET cards == totals IN
    /\ (TotalWeight(UtilityIds, currentMonth) > 0 =>
            Between(cards.avgBill, MinOf(avgBill, UtilityIds, currentMonth),
                    MaxOf(avgBill, UtilityIds, currentMonth)))
    /\ (TotalWeight(Electric, currentMonth) > 0 =>
            Between(cards.avgElectricUsage,
                    MinOf(avgUsage, Electric, currentMonth),
                    MaxOf(avgUsage, Electric, currentMonth)))
    /\ (TotalWeight(Gas, currentMonth) > 0 =>
            Between(cards.avgGasUsage, MinOf(avgUsage, Gas, currentMonth),
                    MaxOf(avgUsage, Gas, currentMonth)))
    /\ \A i \in MonthIdx :
        LET loBill == MinOf(avgBill, UtilityIds, i)
            hiBill == MaxOf(avgBill, UtilityIds, i)
        IN  /\ (TotalWeight(UtilityIds, i) > 0 =>
                    /\ Between(avgBillTrend[i + 1], loBill, hiBill)
                    /\ (selectedUtility = "all" =>
                            Between(BillChart[i + 1].value, loBill, hiBill)))
            /\ (selectedUtility = "all" /\ TotalWeight(Electric, i) > 0 =>
                    Between(UsageChart[i + 1].value,
                            MinOf(avgUsage, Electric, i),
                            MaxOf(avgUsage, Electric, i)))

\* a weighted average strictly inside the range of the bills
C4_Witness ==
    /\ selectedUtility = "all"
    /\ TotalWeight(UtilityIds, currentMonth) > 0
    /\ MinOf(avgBill, UtilityIds, currentMonth) < totals.avgBill.n
    /\ totals.avgBill.n < MaxOf(avgBill, UtilityIds, currentMonth)
    /\ \E u \in UtilityIds : accounts[u][currentMonth + 1] = 0

\* the sums of the last three values of a series and of the three before
RecentSum(d) == SeqSum(SubSeq(d, Len(d) - 2, Len(d)))

PriorSum(d) == SeqSum(SubSeq(d, Len(d) - 5, Len(d) - 3))

\* the class of the exact change 100 * (recent - prior) / prior
ExactDirection(d) ==
    LET diff == 100 * (RecentSum(d) - PriorSum(d))
    IN  IF diff > 2 * PriorSum(d) THEN "up"
        ELSE IF diff < -2 * PriorSum(d) THEN "down"
        ELSE "flat"

IsZeroChange(c) == c.k \in {"number", "fixed"} /\ c.tenths = 0

(* C5: for a series of at least 6 values (with a non-zero prior window),   *)
(* the direction getTrend returns is Up exactly when the change            *)
(* (recent mean - prior mean) / prior mean x 100 exceeds 2, Down exactly   *)
(* when it is below -2, and Flat otherwise, a change of exactly +2 or -2   *)
(* included.                                                               *)
C5_DirectionFollowsExactChange ==
    (Len(data) >= 6 /\ PriorSum(data) > 0 /\ trend # NoTrend)
        => trend.direction = ExactDirection(data)

(* C6: for a series of fewer than 6 values getTrend returns Flat with      *)
(* change 0.                                                               *)
C6_ShortSeriesIsFlat ==
    Len(data) < 6 => trend = NoTrend

(* C7: when the prior 3-month window of a series sums to 0, getTrend and   *)
(* the inline trends of the Arrears and Disconnections tabs report Flat    *)
(* with change 0, never Up or Down and never NaN or Infinity.              *)
C7_ZeroPriorIsFlat ==
    /\ (Len(data) >= 6 /\ PriorSum(data) = 0)
          => (trend.direction = "flat" /\ IsZeroChange(trend.change))
    /\ \A obj \in {arrearsCustomers, arrearsBalance, disconnections} :
          PriorSum(SeriesOf(obj)) = 0
             => LET t == InlineTrend(SeriesOf(obj))
                IN  t.text = "Flat" /\ IsZeroChange(t.change)

(* C8: for a series of at least 6 values with a non-zero prior window,     *)
(* getTrend of the series scaled by a positive constant returns the same   *)
(* direction and the same reported change as getTrend of the series.       *)
C8_ScaleInvariant ==
    (Len(data) >= 6 /\ PriorSum(data) > 0 /\ trend # NoTrend)
        => trend = getTrend(data, 3)

(* C9: every derived rate is numerator / denominator x 100 (a plain        *)
(* quotient for the averages), up to its display rounding, when the        *)
(* denominator is positive, and exactly 0 when the denominator is 0,       *)
(* whatever the numerator.                                                 *)
RateIs(rate, num, den, expected) ==
    IF den > 0 THEN rate = expected ELSE IsZero(rate)

C9_RatesZeroOnZeroDenominator ==
    /\ \A i \in MonthIdx :
        LET sel(obj) == IF selectedUtility = "all"
                        THEN TotalOf(obj, UtilityIds, i)
                        ELSE obj[selectedUtility][i + 1]
            recon == sel(reconnections)
            disc  == sel(disconnections)
            bdDisc == sel(billDiscountDisconnections)
            part  == sel(billDiscountParticipants)
        IN  /\ RateIs(ReconnectionRate(i), recon, disc,
                      ToFixed1(Num(100 * recon, disc)))
            /\ RateIs(BillDiscountDisconnectionRateTrend(i), bdDisc, part,
                      Num(100 * bdDisc, part))
            /\ RateIs(ShareOfDisconnectionsTrend(i), bdDisc, disc,
                      Num(100 * bdDisc, disc))
    /\ \A u \in UtilityIds :
        LET cm == currentMonth + 1
            acct    == accounts[u][cm]
            arrCust == arrearsCustomers[u][cm]
            arrBal  == arrearsBalance[u][cm]
            disc    == disconnections[u][cm]
            bdDisc  == billDiscountDisconnections[u][cm]
            part    == billDiscountParticipants[u][cm]
            withArr == billDiscountParticipantsWithArrears[u][cm]
            bdBal   == billDiscountArrearsBalance[u][cm]
        IN  /\ RateIs(BillDiscountDisconnectionRate(u), bdDisc, part,
                      Num(100 * bdDisc, part))
            /\ RateIs(ShareOfDisconnections(u), bdDisc, disc,
                      Num(100 * bdDisc, disc))
            /\ RateIs(BillDiscountArrearsRate(u), withArr, part,
                      Num(100 * withArr, part))
            /\ RateIs(AverageArrearsPerParticipant(u), bdBal, withArr,
                      Num(bdBal, withArr))
            /\ RateIs(AverageArrearsPerCustomer(u), arrBal, arrCust,
                      MathRound(Num(arrBal, arrCust)))
            /\ RateIs(ComparisonArrearsRate(u), arrCust, acct,
                      ToFixed1(Num(100 * arrCust, acct)))
            /\ RateIs(ComparisonAvgArrears(u), arrBal, arrCust,
                      MathRound(Num(arrBal, arrCust)))

(* C10: getChartData returns one row per month, in month order; row i      *)
(* holds the sum of the metric over the six utilities under 'all' and the  *)
(* selected utility's own value otherwise.                                 *)
ChartedMetrics ==
    {arrearsCustomers, arrearsBalance, disconnections,
     billDiscountParticipants, billDiscountDisconnections,
     billDiscountParticipantsWithArrears, billDiscountArrearsBalance}

C10_ChartDataSumsOrSelects ==
    \A obj \in ChartedMetrics :
        LET rows == getChartData(obj) IN
        /\ Len(rows) = NumMonths
        /\ \A i \in MonthIdx :
            /\ rows[i + 1].month = i
            /\ rows[i + 1].value =
                 IF selectedUtility = "all"
                 THEN TotalOf(obj, UtilityIds, i)
                 ELSE obj[selectedUtility][i + 1]

\* a single utility is charted whose value is not the statewide sum
C10_Witness ==
    /\ selectedUtility # "all"
    /\ \E i \in MonthIdx :
        /\ getChartData(arrearsCustomers)[i + 1].value
             = arrearsCustomers[selectedUtility][i + 1]
        /\ arrearsCustomers[selectedUtility][i + 1] > 0
        /\ TotalOf(arrearsCustomers, UtilityIds, i)
             > arrearsCustomers[selectedUtility][i + 1]

(* C11: in every aggregation (overview totals, the series handed to        *)
(* getTrend, the per-tab trend indicators, the charts) a utility with no   *)
(* entry for the metric or the month contributes 0 and nothing throws.     *)
TrendMetrics ==
    {arrearsCustomers, arrearsBalance, disconnections,
     billDiscountParticipants}

IndicatorMetrics == {arrearsCustomers, arrearsBalance, disconnections}

\* the series in which a missing entry counts as 0
ZeroFilled(obj) ==
    [k |-> "series",
     rows |-> [k \in 1..Len(months) |-> ReduceGuarded(obj, months[k])]]

C11_MissingContributesZero ==
    /\ \A obj \in TrendMetrics : ReducedSeries(obj) = ZeroFilled(obj)
    /\ \A obj \in IndicatorMetrics :
          selectedUtility = "all" => IndicatorSeries(obj) = ZeroFilled(obj)
    /\ \A obj \in ChartedMetrics : \A i \in MonthIdx :
          getChartDataRow(obj, i) =
              IF selectedUtility = "all"
              THEN SetSum([u \in UtilityIds |-> Get(obj, u, i)], UtilityIds)
              ELSE Get(obj, selectedUtility, i)

(* C12: an aggregate (sum, weighted average, chart value) requested at a   *)
(* month index outside [0, series length) fails with an error; it never    *)
(* returns 0 or another value.                                             *)
OutOfRange == {-1, NumMonths, NumMonths + 1}

RangeError == [k |-> "RangeError", n |-> 0, d |-> 1]

C12_OutOfRangeFails ==
    \A idx \in OutOfRange :
        /\ \A obj \in ChartedMetrics :
              /\ ReduceGuarded(obj, idx) = RangeError
              /\ Int2Num(getChartDataRow(obj, idx)) = RangeError
        /\ getWeightedAvgBillByMonth(idx) = RangeError

(* C13: for every catalogued region, with W = 850, H = 520 and margin 30,  *)
(* xScale(lngMin) = 30, xScale(lngMax) = W - 30, yScale(latMin) = H - 30   *)
(* and yScale(latMax) = 30; both scales are affine: the projection of a    *)
(* point interpolated between two points is the same interpolation of      *)
(* their projections.                                                      *)
NumMul(a, b) ==
    LET g1 == GCD(Abs(a.n), b.d)
        g2 == GCD(Abs(b.n), a.d)
    IN  Num((a.n \div g1) * (b.n \div g2), (a.d \div g2) * (b.d \div g1))

\* f(c) = f(a) + lambda * (f(b) - f(a)) where c = a + lambda * (b - a)
Interpolates(fa, fb, fc, a, b, c) ==
    fc = NumAdd(fa, NumMul(Num(c - a, b - a), NumSub(fb, fa)))

SampleLngs == {lngMin, lngMax, -122887, -116970}

SampleLats == {latMin, latMax, 45527, 44050}

C13_ProjectionIsAffine ==
    /\ xScale(lngMin) = Int2Num(30)
    /\ xScale(lngMax) = Int2Num(mapWidth - 30)
    /\ yScale(latMin) = Int2Num(mapHeight - 30)
    /\ yScale(latMax) = Int2Num(30)
    /\ \A a \in SampleLngs, b \in SampleLngs, c \in SampleLngs :
          a < b => Interpolates(xScale(a), xScale(b), xScale(c), a, b, c)
    /\ \A a \in SampleLats, b \in SampleLats, c \in SampleLats :
          a < b => Interpolates(yScale(a), yScale(b), yScale(c), a, b, c)

\* a region other than the initial one shows a marker strictly inside the
\* frame, north of the bottom edge
C13_Witness ==
    LET fg == filteredGeoData
    IN  /\ geoRegion = "portland"
        /\ \E k \in 1..Len(fg) :
              /\ fg[k].x = xScale(-122887)
              /\ NumLess(Int2Num(30), fg[k].x)
              /\ NumLess(fg[k].x, Int2Num(mapWidth - 30))
              /\ NumLess(fg[k].y, Int2Num(mapHeight - 30))

(* C14: in every state of the geographic selections the projected point    *)
(* set holds exactly the candidate records whose lat and lng lie in the    *)
(* active region's box; nothing outside is projected or clamped onto the   *)
(* edge, so every projected point has x in [30, 820] and y in [30, 490].   *)
Candidates == LET all == allGeoData IN {all[k] : k \in 1..Len(all)}

\* a projected point without its pixel coordinates
Unprojected(p) ==
    [zip |-> p.zip, lat |-> p.lat, lng |-> p.lng,
     apr |-> p.apr, may |-> p.may, jun |-> p.jun,
     utility |-> p.utility, value |-> p.value]

Projected ==
    LET displayed == filteredGeoData
    IN  {displayed[k] : k \in 1..Len(displayed)}

Within(lo, v, hi) == ~NumLess(v, Int2Num(lo)) /\ ~NumLess(Int2Num(hi), v)

C14_ExactlyTheRecordsInTheBox ==
    /\ {Unprojected(p) : p \in Projected}
         = {d \in Candidates :
               /\ latMin <= d.lat /\ d.lat <= latMax
               /\ lngMin <= d.lng /\ d.lng <= lngMax}
    /\ LET all == allGeoData
       IN  Len(filteredGeoData)
             = Cardinality({k \in 1..Len(all) :
                   /\ latMin <= all[k].lat /\ all[k].lat <= latMax
                   /\ lngMin <= all[k].lng /\ all[k].lng <= lngMax})
    /\ \A p \in Projected :
          /\ p.x.k = "num" /\ p.y.k = "num"
          /\ p.x = xScale(p.lng) /\ p.y = yScale(p.lat)
          /\ Within(30, p.x, 820)
          /\ Within(30, p.y, 490)

\* a region that shows some candidates and leaves others out
C14_Witness ==
    /\ Projected # {}
    /\ \E d \in Candidates : d.lng < lngMin \/ d.lng > lngMax
    /\ \E d \in Candidates : d.lat >= latMin /\ d.lat <= latMax
                               /\ (d.lng < lngMin \/ d.lng > lngMax)

(* C15: when the active region's box has latMax = latMin or lngMax =       *)
(* lngMin, the projector signals an InvalidRegion error instead of         *)
(* dividing by zero and producing NaN or Infinity coordinates.             *)
Degenerate == latMax = latMin \/ lngMax = lngMin

InvalidRegion == [k |-> "InvalidRegion", n |-> 0, d |-> 1]

\* the coordinates the projector hands out: the markers' and those of the
\* region's corners
ProjectorOutputs ==
    LET fg == filteredGeoData
    IN  {fg[k].x : k \in 1..Len(fg)} \cup {fg[k].y : k \in 1..Len(fg)}
        \cup {xScale(lngMin), xScale(lngMax + 1), yScale(latMin),
              yScale(latMax + 1)}

C15_DegenerateRegionIsRejected ==
    Degenerate =>
        /\ \A c \in ProjectorOutputs : c.k = "num" \/ c = InvalidRegion
        /\ xScale(lngMin) = InvalidRegion \/ yScale(latMin) = InvalidRegion

(* C16: two distinct projected points with identical coordinates (one ZIP  *)
(* served by several utilities) are drawn at different centres: each gets  *)
(* the lateral offset (rank - (n - 1) / 2) * step, rank being its position *)
(* among the n colliding points in displayed order, step 6 statewide and   *)
(* 12 otherwise; a non-colliding point gets offset 0; the offset depends   *)
(* on the rank only, and the record's lat, lng, x and y are unchanged.     *)
Colliding(fg, i) ==
    {j \in 1..Len(fg) : fg[j].x = fg[i].x /\ fg[j].y = fg[i].y}

Rank(fg, i) == Cardinality({j \in Colliding(fg, i) : j < i})

Step == IF geoRegion = "statewide" THEN 6 ELSE 12

ExpectedOffset(fg, i) ==
    LET n == Cardinality(Colliding(fg, i))
    IN  IF n > 1 THEN Num((2 * Rank(fg, i) - (n - 1)) * Step, 2)
        ELSE Int2Num(0)

C16_CollidingMarkersAreSpread ==
    LET fg == filteredGeoData
        mk == Markers
    IN  /\ Len(mk) = Len(fg)
        /\ \A i \in 1..Len(mk) :
              /\ mk[i].record = fg[i]
              /\ mk[i].offset = ExpectedOffset(fg, i)
              /\ mk[i].cx = NumAdd(fg[i].x, ExpectedOffset(fg, i))
              /\ mk[i].cy = fg[i].y
        /\ \A i \in 1..Len(mk), j \in 1..Len(mk) :
              /\ (i # j /\ j \in Colliding(fg, i)) =>
                    <<mk[i].cx, mk[i].cy>> # <<mk[j].cx, mk[j].cy>>
              /\ (Rank(fg, i) = Rank(fg, j)
                    /\ Cardinality(Colliding(fg, i))
                         = Cardinality(Colliding(fg, j))) =>
                    mk[i].offset = mk[j].offset

\* a zoomed region shows two utilities on one ZIP, 6 pixels either side of
\* the ZIP's position
C16_Witness ==
    LET fg == filteredGeoData
        mk == Markers
    IN  /\ geoRegion # "statewide"
        /\ \E i \in 1..Len(mk), j \in 1..Len(mk) :
              /\ i < j
              /\ j \in Colliding(fg, i)
              /\ mk[i].utility # mk[j].utility
              /\ mk[i].offset = Int2Num(-6)
              /\ mk[j].offset = Int2Num(6)

(* C17: the colour scale's min and max are the minimum and maximum over    *)
(* the strictly positive metric values of the active set only; a point     *)
(* whose value is <= 0 is still drawn, with the lightness of a point at    *)
(* min.                                                                    *)
Zero == Int2Num(0)

PositiveValues(recs) ==
    {v \in {recs[k].value : k \in 1..Len(recs)} : NumLess(Zero, v)}

Least(S) == CHOOSE v \in S : \A w \in S : ~NumLess(w, v)

Greatest(S) == CHOOSE v \in S : \A w \in S : ~NumLess(v, w)

C17_NonPositiveDrawnAtLowEnd ==
    LET all == allGeoData
        fg  == filteredGeoData
        mk  == Markers
        pos == PositiveValues(all)
    IN  /\ pos # {} => geoMinVal = Least(pos) /\ geoMaxVal = Greatest(pos)
        /\ Len(mk) = Len(fg)
        /\ \A i \in 1..Len(mk) :
              ~NumLess(Zero, fg[i].value) =>
                  mk[i].fill.l = Lightness(geoMinVal)

(* C18: for every point drawn, the normalised value t of getGeoColor lies  *)
(* in [0, 1], so that lightness stays within [40, 82]; t = 0 for every     *)
(* point when max = min or when the active set has no positive value.      *)
C18_NormalisedValueInUnitInterval ==
    LET fg  == filteredGeoData
        mk  == Markers
        pos == PositiveValues(allGeoData)
    IN  \A i \in 1..Len(mk) :
            LET t == geoT(fg[i].value) IN
            /\ ~NumLess(t, Zero) /\ ~NumLess(Int2Num(1), t)
            /\ ~NumLess(mk[i].fill.l, Int2Num(40))
            /\ ~NumLess(Int2Num(82), mk[i].fill.l)
            /\ (geoMaxVal = geoMinVal \/ pos = {}) => t = Zero

(* C19: in every state reached by utility, month, metric and region        *)
(* selections, the min and max that colour the markers are the min and max *)
(* positive value among the points displayed on the map, after the region  *)
(* filter; changing only the region recomputes the scale.                  *)
C19_ScaleFollowsDisplayedPoints ==
    LET shown == PositiveValues(filteredGeoData)
    IN  shown # {} =>
            geoMinVal = Least(shown) /\ geoMaxVal = Greatest(shown)

(* C20: for a fixed utility getGeoColor uses one hue and one saturation    *)
(* and varies lightness only; a greater value never gets a greater         *)
(* lightness; when max = min all points of a utility get one colour.       *)
C20_LightnessNeverReversesOrder ==
    LET all == allGeoData
        lo  == geoMinVal
        hi  == geoMaxVal
    IN  \A i \in 1..Len(all), j \in 1..Len(all) :
            LET ci == getGeoColor(all[i].value, all[i].utility)
                cj == getGeoColor(all[j].value, all[j].utility)
            IN  /\ all[i].utility = all[j].utility =>
                      /\ ci.h = cj.h /\ ci.s = cj.s
                      /\ lo = hi => ci = cj
                /\ ci.h = getGeoColor(lo, all[i].utility).h
                /\ ci.s = getGeoColor(hi, all[i].utility).s
                /\ NumLess(all[j].value, all[i].value) => ~NumLess(cj.l, ci.l)

\* a zoomed region shows two utilities whose values differ, the greater
\* value being the darker
C20_Witness ==
    LET fg == filteredGeoData
        mk == Markers
    IN  /\ geoRegion = "portland"
        /\ \E i \in 1..Len(mk), j \in 1..Len(mk) :
              /\ NumLess(fg[j].value, fg[i].value)
              /\ NumLess(mk[i].fill.l, mk[j].fill.l)
              /\ mk[i].fill.h # mk[j].fill.h

(* C21: for every selection of utility, month, metric and region the       *)
(* ranked list is ordered by metric value descending, and two entries of   *)
(* equal value appear in ascending lexical order of their ZIP codes.       *)

\* the rank of a ZIP code in lexical order (five-digit codes: numeric order)
ZipNumber(zip) ==
    CASE zip = "97003" -> 97003
      [] zip = "97701" -> 97701
      [] zip = "97914" -> 97914

RankedByValueThenZip(rows) ==
    \A i \in 1..Len(rows), j \in 1..Len(rows) :
        i < j =>
            /\ ~NumLess(rows[i].value, rows[j].value)
            /\ rows[i].value = rows[j].value =>
                  ZipNumber(rows[i].zip) <= ZipNumber(rows[j].zip)

C21_RankedByValueThenZip ==
    LET all  == allGeoData
        rows == TopList
    IN  RankedByValueThenZip(all) /\ RankedByValueThenZip(rows)

(* C22: the ranked display shows at most 50 entries (ListLimit here),      *)
(* exactly the first 50, or all if fewer, of the sorted sequence in the    *)
(* same order; producing it leaves the sorted point set, the projected     *)
(* point set and the source records as they are.                           *)
C22_ListIsPrefixOfRanking ==
    LET rows == RankedRows
        list == TopList
        fg   == filteredGeoData
        all  == allGeoData
    IN  /\ Len(list) = IF Len(rows) < ListLimit THEN Len(rows) ELSE ListLimit
        /\ \A k \in 1..Len(list) : list[k] = rows[k]
        /\ Len(Markers) = Len(fg)
        /\ Len(fg) = Cardinality({k \in 1..Len(all) : InBox(all[k])})
        /\ Len(all) = Len(Collect(utilKeys))
        /\ \A k \in 1..Len(all) :
              \E j \in 1..Len(geoZipData[all[k].utility]) :
                  LET d == geoZipData[all[k].utility][j]
                  IN  /\ d.zip = all[k].zip
                      /\ d.lat = all[k].lat /\ d.lng = all[k].lng
                      /\ d[geoMonth] = all[k][geoMonth]

\* more records are ranked than the list shows, and all of them are drawn
C22_Witness ==
    /\ geoMonth = "apr"
    /\ Len(RankedRows) > ListLimit
    /\ Len(TopList) = ListLimit
    /\ Len(Markers) > ListLimit

(* C23: ranking is idempotent: sorting a sequence that is already in       *)
(* ranked order returns the same sequence, and sorting any input twice     *)
(* gives the same order as sorting it once, entries of equal value         *)
(* included.                                                               *)
Reversed(recs) == [k \in 1..Len(recs) |-> recs[Len(recs) + 1 - k]]

C23_RankingIsIdempotent ==
    LET input == Collect(utilKeys)
        once  == SortDesc(input)
        back  == SortDesc(Reversed(input))
    IN  /\ allGeoData = once
        /\ SortDesc(once) = once
        /\ SortDesc(back) = back
        /\ SortDesc(TopList) = TopList

\* the records pushed are not in ranked order, and two of them tie
C23_Witness ==
    LET input == Collect(utilKeys)
        once  == SortDesc(input)
    IN  /\ input # once
        /\ \E i \in 1..Len(once), j \in 1..Len(once) :
              i < j /\ once[i].value = once[j].value
        /\ SortDesc(once) = once

(* C24: the geographic and aggregation computations are deterministic and  *)
(* free of side effects: the ranking, the projected points, the colour      *)
(* scale, the marker lightness and the ranked list of every reachable state *)
(* are the values of functions of (utility filter, month, metric, region)   *)
(* and the geoZipData records alone, whatever is hovered or pinned and      *)
(* whatever was selected before, and no step changes the loaded series or   *)
(* the geoZipData records.                                                  *)
KeysOf(u) ==
    IF u = "all" THEN <<"pge", "nwn", "avista", "cng", "pac", "ipco">> ELSE <<u>>

\* the ranking as a function of its inputs: the qualifying records, each
\* placed after the records of larger value and after the earlier-pushed
\* records of equal value
RankingOf(zd, u, m, k) ==
    LET keys == KeysOf(u)
        Qual(a) == {b \in 1..Len(zd[keys[a]]) :
                       /\ m \in DOMAIN zd[keys[a]][b]
                       /\ zd[keys[a]][b][m].active > 20}
        Src  == UNION {{<<a, b>> : b \in Qual(a)} :
                          a \in {a \in 1..Len(keys) : keys[a] \in DOMAIN zd}}
        Val  == [p \in Src |-> getGeoMetricValue(zd[keys[p[1]]][p[2]], m, k)]
        Before(q, p) ==
            \/ NumLess(Val[p], Val[q])
            \/ /\ Val[p] = Val[q]
               /\ (q[1] < p[1] \/ (q[1] = p[1] /\ q[2] < p[2]))
        Place == [p \in Src |-> 1 + Cardinality({q \in Src : Before(q, p)})]
    IN  [n \in 1..Cardinality(Src) |->
            LET p == CHOOSE q \in Src : Place[q] = n
                d == zd[keys[p[1]]][p[2]]
            IN  [zip |-> d.zip, lat |-> d.lat, lng |-> d.lng,
                 utility |-> keys[p[1]], value |-> Val[p]]]

InsideOf(box, recs) ==
    LET In(d) == /\ d.lat >= box.latMin /\ d.lat <= box.latMax
                 /\ d.lng >= box.lngMin /\ d.lng <= box.lngMax
    IN  SelectSeq(recs, In)

ScaleOf(recs) ==
    LET pos == {recs[k].value : k \in {k \in 1..Len(recs) :
                                          NumLess(Int2Num(0), recs[k].value)}}
    IN  IF pos = {} THEN <<Int2Num(0), Int2Num(1)>>
        ELSE << CHOOSE v \in pos : \A w \in pos : ~NumLess(w, v),
                CHOOSE v \in pos : \A w \in pos : ~NumLess(v, w) >>

LightnessOf(v, scale) ==
    IF NumLess(scale[1], scale[2])
    THEN LET t == NumQuot(NumSub(v, scale[1]), NumSub(scale[2], scale[1]))
         IN  Num(82 * t.d - 42 * t.n, t.d)
    ELSE Int2Num(82)

Core(recs) ==
    [k \in 1..Len(recs) |->
        [zip |-> recs[k].zip, lat |-> recs[k].lat, lng |-> recs[k].lng,
         utility |-> recs[k].utility, value |-> recs[k].value]]

GeoOutputsAreFunctionsOfInputs ==
    LET ranked == RankingOf(geoZipData, geoUtility, geoMonth, geoMetric)
        inside == InsideOf(geoRegions[geoRegion], ranked)
        scale  == ScaleOf(ranked)
        all    == allGeoData
        fg     == filteredGeoData
        list   == TopList
    IN  /\ Core(all) = ranked
        /\ Core(fg) = inside
        /\ <<geoMinVal, geoMaxVal>> = scale
        /\ \A k \in 1..Len(fg) :
              getGeoColor(fg[k].value, fg[k].utility).l
                  = LightnessOf(fg[k].value, scale)
        /\ Core(list) = Slice(IF geoRegion = "statewide" THEN ranked ELSE inside,
                              0, ListLimit)

StoreSeries ==
    [ accounts |-> accounts, avgBill |-> avgBill, avgUsage |-> avgUsage,
      arrearsCustomers |-> arrearsCustomers, arrearsBalance |-> arrearsBalance,
      disconnections |-> disconnections, reconnections |-> reconnections,
      billDiscountParticipants |-> billDiscountParticipants,
      billDiscountDisconnections |-> billDiscountDisconnections,
      billDiscountParticipantsWithArrears |-> billDiscountParticipantsWithArrears,
      billDiscountArrearsBalance |-> billDiscountArrearsBalance ]

OneRowPerMonth(sheet) ==
    /\ Len(sheet.rows) = Len(months)
    /\ \A k \in 1..Len(months) : sheet.rows[k].month = months[k]

UtilityColumnsInOrder(sheet) ==
    \A k \in 1..Len(sheet.rows) :
        LET cells == sheet.rows[k].cells
        IN  /\ Len(cells) % Len(utilities) = 0
            /\ \A c \in 1..Len(cells) :
                  /\ cells[c].utility = utilities[((c - 1) % Len(utilities)) + 1]
                  /\ cells[c].metric
                        = cells[c - ((c - 1) % Len(utilities))].metric

CellsRestateStore(sheet) ==
    LET store == StoreSeries
    IN  \A k \in 1..Len(sheet.rows) :
            \A c \in 1..Len(sheet.rows[k].cells) :
                LET cell == sheet.rows[k].cells[c]
                IN  /\ cell.metric \in DOMAIN store
                    /\ cell.value = Int2Num(At(store[cell.metric],
                                               cell.utility, sheet.rows[k].month))

ExportedMetrics(sheets) ==
    UNION {UNION {{sheets[s].rows[k].cells[c].metric :
                      c \in 1..Len(sheets[s].rows[k].cells)} :
                  k \in 1..Len(sheets[s].rows)} :
           s \in 1..Len(sheets)}

C25_ExportRestatesStore ==
    LET sheets == ExportSheets
    IN  /\ \A s \in 1..Len(sheets) :
              /\ OneRowPerMonth(sheets[s])
              /\ UtilityColumnsInOrder(sheets[s])
              /\ CellsRestateStore(sheets[s])
        /\ DOMAIN StoreSeries \subseteq ExportedMetrics(sheets)

\* the parts of C25 that the export does satisfy
C25_WideSheetsRestateStore ==
    LET sheets == ExportSheets
    IN  /\ \A s \in 1..Len(sheets) :
              /\ CellsRestateStore(sheets[s])
              /\ sheets[s].name # "Arrears - By Bucket"
                    => /\ OneRowPerMonth(sheets[s])
                       /\ UtilityColumnsInOrder(sheets[s])
        /\ ExportedMetrics(sheets)
              = {"accounts", "avgBill", "avgUsage", "arrearsCustomers",
                 "arrearsBalance", "disconnections", "billDiscountParticipants"}

\* the two ways in which the export departs from C25
C25_BucketSheetIsLong ==
    Len(arrearsBucketData.rows) = Len(months) * Len(utilities)

C25_SeriesLeftOut ==
    DOMAIN StoreSeries \ ExportedMetrics(ExportSheets)
        = {"reconnections", "billDiscountDisconnections",
           "billDiscountParticipantsWithArrears", "billDiscountArrearsBalance"}

C27_PinnedZipIsProjected ==
    geoSelected # Null =>
        LET fg == filteredGeoData
        IN  /\ \E k \in 1..Len(fg) : fg[k].zip = geoSelected
            /\ Len(activeItems) > 0

(* C28: the active ZIP is geoSelected whenever a ZIP is pinned and geoHover *)
(* only otherwise, and the hover tooltip is never shown while a ZIP is     *)
(* pinned; a hover enter or leave event never changes the pin, nor the     *)
(* active ZIP while one is pinned; only a click changes the pin: a click   *)
(* on the pinned ZIP or on the close button clears it, a click on any      *)
(* other ZIP pins that ZIP.                                                *)
PinGovernsActiveZip ==
    /\ geoSelected # Null => activeZip = geoSelected /\ ~HoverTooltip
    /\ geoSelected = Null => activeZip = geoHover

HoverLeavesPin ==
    geoHover' # geoHover =>
        /\ geoSelected' = geoSelected
        /\ geoSelected # Null => activeZip' = activeZip

OnlyClicksChangePin ==
    geoSelected' # geoSelected =>
        LET targets == Targets
        IN  /\ \/ ClearSelected
               \/ \E zip \in targets : ClickZip(zip)
            /\ \A zip \in targets :
                  ClickZip(zip) =>
                      /\ zip = geoSelected => geoSelected' = Null
                      /\ zip # geoSelected => geoSelected' = zip
            /\ ClearSelected => geoSelected' = Null

C28_PinOverridesHover ==
    /\ []PinGovernsActiveZip
    /\ [][HoverLeavesPin /\ OnlyClicksChangePin]_vars

\* a ZIP is pinned while another one is hovered
C28_Witness ==
    /\ geoSelected # Null /\ geoHover # Null /\ geoHover # geoSelected
    /\ Len(activeItems) > 0
    /\ activeItems[1].zip = geoSelected

(* C29: in every selection state, the statewide region included, every     *)
(* entry of the ranked list is a record of the projected set, which is the *)
(* set drawn on the map (one marker per record of filteredGeoData): the    *)
(* list holds no record that the region's bounding box excludes.           *)
C29_ListedIsDrawn ==
    LET list == TopList
        fg   == filteredGeoData
    IN  \A k \in 1..Len(list) :
            /\ InBox(list[k])
            /\ \E j \in 1..Len(fg) :
                  /\ fg[j].zip = list[k].zip
                  /\ fg[j].utility = list[k].utility
                  /\ fg[j].value = list[k].value
                  /\ fg[j].lat = list[k].lat /\ fg[j].lng = list[k].lng

\* the statewide list, taken from allGeoData, cut at the limit
C29_Witness ==
    /\ isStatewide
    /\ geoMetric = "arrears_count"
    /\ Len(TopList) = ListLimit
    /\ Len(allGeoData) > ListLimit

(* C30: with the utility filter set to 'all', the label computed inline on  *)
(* the Arrears tab (customers, balance) and on the Disconnections tab      *)
(* (total disconnections) is the Up/Down/Flat classification that getTrend *)
(* returns for the same statewide series, for every data set, short series *)
(* and series whose prior window mean is 0 included.                       *)
DirectionOf(text) ==
    CASE text = "Trending Up"   -> "up"
      [] text = "Trending Down" -> "down"
      [] OTHER                  -> "flat"

C30_InlineAgreesWithGetTrend ==
    DirectionOf(InlineTrend(data).text) = getTrend(data, 3).direction

\* the part of C30 that holds: on the series of the loaded store, which
\* have one value per month, the two computations agree
C30_AgreeOnLoadedSeries ==
    selectedUtility = "all" =>
        LET arrears == ArrearsTrend
            disc    == DisconnectionsTrend
        IN  /\ DirectionOf(arrears.customers.text)
                  = getTrend(StatewideSeries(arrearsCustomers), 3).direction
            /\ DirectionOf(arrears.balance.text)
                  = getTrend(StatewideSeries(arrearsBalance), 3).direction
            /\ DirectionOf(disc.disconnections.text)
                  = getTrend(StatewideSeries(disconnections), 3).direction

\* they also agree on every series of at least six values
C30_AgreeFromSixValues ==
    Len(data) >= 6 =>
        DirectionOf(InlineTrend(data).text) = getTrend(data, 3).direction

====
